---- MODULE Spec2Model ----
(***************************************************************************)
(* A model of the deploy tool's reconciliation engine: the diff engine     *)
(* (compare), the sync orchestrator with its resource clients (role,       *)
(* functions, gateway, triggers, policy) running against a remote          *)
(* platform, and the environment resolution engine (resolveEnv).           *)
(*                                                                         *)
(* The specifications of the module:                                       *)
(*   SpecCompare  the diff engine applied to bounded input lists           *)
(*   Spec         sync runs against the remote platform                    *)
(*   SpecEnv      one environment resolution                               *)
(*   SpecRoute    the route and permission path of one declared function   *)
(*   SpecDeploy   one deployment: snapshot, alerting setup, sync            *)
(*   SpecConflict one call of retryConflict                                *)
(*   SpecThrottle one function creation (retry) or listing (fetchFunctions)*)
(*   SpecPolicy   one call of assignPolicy                                 *)
(*   SpecName     one integration built and its name read back              *)
(*   SpecProbe    one call of getRole, getFunction or getTriggers           *)
(*   SpecListing  one call of a paged listing                               *)
(*   SpecCors     one call of syncGatewayApi                                *)
(*   SpecTopic    one call of ensureTopic                                  *)
(*   SpecAlerting one call of ensureTrigger or setupAlarm                  *)
(*   SpecCache    the callers of fetchFunctions in one deployment          *)
(*   SpecResync   environment resolution repeated across deployments       *)
(***************************************************************************)
EXTENDS Integers, Sequences, FiniteSets, TLC

VARIABLES
    local, current, diff,                       \* diff engine
    remote, platform, reflection, environment,  \* the platform and the inputs of sync
    run, pc, pending, state, loc, aborted, failures, host, hist,
    template, deployed, renv,                   \* environment resolution
    decl, translated,                           \* route translation
    monitor,                                    \* alerting setup of a deployment
    conflict, throttle,                         \* the retry loops of the request layer
    call, result                                \* one call of a function of a client

cmpVars == <<local, current, diff>>
routeVars == <<decl, translated>>
loopVars == <<conflict, throttle>>
pureVars == <<call, result>>
libVars == <<routeVars, monitor, loopVars, pureVars>>
syncVars == <<remote, platform, reflection, environment, run, pc, pending, state, loc,
              aborted, failures, host, hist>>
envVars == <<template, deployed, renv>>
vars == <<cmpVars, syncVars, envVars, libVars>>

None == "none"

\* ------------------------------------------------------------------ bounds

MaxLen == 2

\* ------------------------------------------------------------- diff engine

Range(s) == {s[i] : i \in DOMAIN s}

NamesOf(s) == {s[i].name : i \in DOMAIN s}

HasName(s, n) == \E i \in DOMAIN s : s[i].name = n

\* compare with the surplus filter looking the name up in the wrong list
CompareSurplusWrongList(l, c) ==
    [missing  |-> SelectSeq(l, LAMBDA fn : ~HasName(c, fn.name)),
     surplus  |-> SelectSeq(c, LAMBDA r : ~HasName(c, r.name)),
     existing |-> SelectSeq(c, LAMBDA r : HasName(l, r.name))]

compare(l, c) ==
    [missing  |-> SelectSeq(l, LAMBDA fn : ~HasName(c, fn.name)),
     surplus  |-> SelectSeq(c, LAMBDA r : ~HasName(l, r.name)),
     existing |-> SelectSeq(c, LAMBDA r : HasName(l, r.name))]

CmpNames == {"a", "b", "c"}

SeqsUpTo(S, n) == UNION {[1..k -> S] : k \in 0..n}

IdleCmp == local = <<>> /\ current = <<>> /\ diff = <<>>
IdleSync ==
    /\ remote = None /\ platform = None /\ reflection = None /\ environment = None
    /\ run = 0 /\ pc = "off" /\ pending = {} /\ state = None /\ loc = None
    /\ aborted = FALSE /\ failures = 0 /\ host = <<>> /\ hist = None
IdleEnv == template = None /\ deployed = None /\ renv = None
IdleRoute == decl = None /\ translated = None
\* no alerting setup: sync is called without a safe-list
IdleMonitor ==
    [pc |-> "off", config |-> "off", listener |-> <<>>, topic |-> FALSE, todo |-> <<>>,
     alarms |-> {}, thrown |-> <<>>, warned |-> FALSE, raised |-> FALSE, result |-> <<>>]
IdleLoops == conflict = None /\ throttle = None
NoCall == [fn |-> "none"]
IdlePure == call = NoCall /\ result = <<>>
IdleLib == IdleRoute /\ monitor = IdleMonitor /\ IdleLoops /\ IdlePure

InitCompare ==
    /\ local \in SeqsUpTo([name : CmpNames, side : {"desired"}], MaxLen)
    /\ current \in SeqsUpTo([name : CmpNames, side : {"remote"}], MaxLen)
    /\ diff = <<>>
    /\ IdleSync /\ IdleEnv /\ IdleLib

Compare ==
    /\ diff = <<>>
    /\ diff' = <<compare(local, current)>>
    /\ UNCHANGED <<local, current, syncVars, envVars, libVars>>

NextCompare == Compare

SpecCompare == InitCompare /\ [][NextCompare]_vars

\* C1: by name, missing, surplus and existing are pairwise disjoint, cover the
\* names of both inputs, and are the names only in desired, only in current, in both.
C1_ComparePartitions ==
    diff # <<>> =>
        LET M == NamesOf(diff[1].missing)
            S == NamesOf(diff[1].surplus)
            E == NamesOf(diff[1].existing)
            L == NamesOf(local)
            C == NamesOf(current)
        IN  /\ M \cap S = {} /\ M \cap E = {} /\ S \cap E = {}
            /\ M \cup S \cup E = L \cup C
            /\ M = L \ C /\ S = C \ L /\ E = L \cap C

C1_Witness ==
    /\ diff # <<>>
    /\ diff[1].missing # <<>> /\ diff[1].surplus # <<>> /\ diff[1].existing # <<>>

\* ------------------------------------------------------- names and ARNs
\* A name is the sequence of its dash-separated segments: "p-s-a" is <<"p","s","a">>.

Prefix == "p"
Service == "s"
Account == "111"
ApiId == "g1"

Last(s) == s[Len(s)]

SetToSeq(S) ==
    LET RECURSIVE toSeq(_)
        toSeq(T) == IF T = {} THEN <<>>
                    ELSE LET x == CHOOSE x \in T : TRUE IN <<x>> \o toSeq(T \ {x})
    IN toSeq(S)

MapSeq(s, F(_)) == [i \in DOMAIN s |-> F(s[i])]

Reverse(s) == [i \in DOMAIN s |-> s[Len(s) + 1 - i]]

\* the items of a list response, in one of the orders the platform may list them in
Listing(S) == IF platform.reversed THEN Reverse(SetToSeq(S)) ELSE SetToSeq(S)

FunctionName(name) == <<Prefix, Service>> \o name

FunctionArn(region, account, name) ==
    <<"arn", "aws", "lambda", region, account, "function", FunctionName(name)>>

\* ------------------------------------------------------- functions client

zip(code) == [zipped |-> code, sha256 |-> <<"sha256", code>>]

getRuntime(config) ==
    CASE config.nodeVersion = ">=20" -> "nodejs20.x"
      [] config.nodeVersion = ">=18" -> "nodejs18.x"
      [] OTHER -> "unsupported"

lambdaArchitecture(config) ==
    IF config.compute = "high" THEN <<"x86_64">> ELSE <<"arm64">>

lambdaConfig(config, role, env) ==
    [Role |-> role,
     Runtime |-> getRuntime(config),
     Timeout |-> IF config.timeout = <<>> THEN 30 ELSE config.timeout[1],
     MemorySize |-> IF config.compute = "high" \/ config.memory = "high" THEN 3008 ELSE 512,
     Environment |-> env]

\* The platform's record of a function. A function without variables is listed
\* without an Environment block on a platform that omits empty blocks.
StoredEnvironment(variables) ==
    IF variables = {} /\ platform.omitEmptyEnv THEN <<>> ELSE <<variables>>

AwsFunction(name, cpus, awsConfig, sha) ==
    [FunctionName |-> FunctionName(name),
     FunctionArn |-> FunctionArn(platform.region, Account, name),
     Runtime |-> awsConfig.Runtime,
     MemorySize |-> awsConfig.MemorySize,
     Timeout |-> awsConfig.Timeout,
     Environment |-> StoredEnvironment(awsConfig.Environment.vars),
     Architectures |-> cpus,
     CodeSha256 |-> sha]

StartsWith(s, pre) == Len(s) >= Len(pre) /\ SubSeq(s, 1, Len(pre)) = pre

\* the lite shape of one listed function; a missing Environment block reads as []
AwsFunctionLite(fn, fnPrefix) ==
    [id |-> fn.FunctionArn,
     name |-> SubSeq(fn.FunctionName, Len(fnPrefix) + 1, Len(fn.FunctionName)),
     runtime |-> fn.Runtime,
     memory |-> fn.MemorySize,
     timeout |-> fn.Timeout,
     env |-> IF fn.Environment = <<>> THEN [kind |-> "array", vars |-> {}]
             ELSE [kind |-> "object", vars |-> fn.Environment[1]],
     cpus |-> fn.Architectures,
     hash |-> fn.CodeSha256]

getFunctions(prefix, service) ==
    LET fnPrefix == <<prefix, service>>
        mine == {f \in remote.functions : StartsWith(f.FunctionName, fnPrefix)}
    IN MapSeq(Listing(mine), LAMBDA f : AwsFunctionLite(f, fnPrefix))

\* ------------------------------------------------------- gateway client

\* the block with credentials refused as soon as some origin is the wildcard
corsSettingsAnyWildcard(corsSites) ==
    [allowOrigins |-> corsSites,
     allowCredentials |-> "*" \notin Range(corsSites),
     maxAge |-> 600]

corsSettings(corsSites) ==
    [allowOrigins |-> corsSites,
     allowCredentials |-> corsSites # <<"*">>,
     maxAge |-> 600]

Param(p) == <<"{p1}", "{p2}", "{p3}", "{p4}", "{p5}", "{p6}", "{p7}", "{p8}", "{p9}">>[p]

\* numbers every star with the parameter of the first one
RECURSIVE replaceStarsSameParam(_, _)
replaceStarsSameParam(path, p) ==
    IF path = <<>> THEN <<>>
    ELSE IF Head(path) = "*" THEN <<Param(1)>> \o replaceStarsSameParam(Tail(path), p)
    ELSE <<Head(path)>> \o replaceStarsSameParam(Tail(path), p)

RECURSIVE replaceStars(_, _)
replaceStars(path, p) ==
    IF path = <<>> THEN <<>>
    ELSE IF Head(path) = "*" THEN <<Param(p + 1)>> \o replaceStars(Tail(path), p + 1)
    ELSE <<Head(path)>> \o replaceStars(Tail(path), p)

\* a string of the gateway client is the sequence of its pieces: "/", "*", " "
\* and runs of other characters; a path ends with a slash when its last piece is "/"
trimTrailingSlash(path) ==
    IF path # <<>> /\ Last(path) = "/" THEN SubSeq(path, 1, Len(path) - 1) ELSE path

Min(a, b) == IF a <= b THEN a ELSE b

asIntegration(region, account, prefix, service, fn) ==
    [integrationMethod |-> fn.method,
     integrationUri |-> <<"arn", "aws", "lambda", region, account, "function",
                          <<prefix, service>> \o fn.name>>,
     timeoutInMillis |->
        Min(((IF fn.config.timeout = <<>> THEN 15 ELSE fn.config.timeout[1]) + 5) * 1000,
            30000)]

asRoute(integrationId, fn) ==
    [routeKey |-> <<fn.method, " ", "/">>
                  \o trimTrailingSlash(replaceStars(fn.pathPattern, 0)),
     target |-> <<"integrations", integrationId>>]

\* the function name parsed out of an integration URI: the last dash-separated
\* segment of the last colon-separated field
IntegrationName(integrationUri) == <<Last(Last(integrationUri))>>

\* ------------------------------------------------------- triggers client

makeStatementData(region, account, apiGatewayId, functionId, fn) ==
    [Action |-> "lambda:InvokeFunction",
     Effect |-> "Allow",
     Principal |-> [Service |-> "apigateway.amazonaws.com"],
     Resource |-> functionId,
     Condition |-> <<"arn", "aws", "execute-api", region, account, apiGatewayId,
                     <<"/", "*", "/", "*", "/">>
                     \o trimTrailingSlash(replaceStars(fn.pathPattern, 0))>>]

\* ------------------------------------------------------- roles client

\* the document with the additional statements copied as they are declared
PolicyDocumentUnsubstituted(prefix, service, region, account, additionalStatements) ==
    <<[Effect |-> "Allow", Resource |-> <<"logs", region, account, "*">>,
       Action |-> "logs:CreateLogGroup"],
      [Effect |-> "Allow", Resource |-> <<"logs", region, account, prefix, service>>,
       Action |-> "logs:CreateLogStream"],
      [Effect |-> "Allow", Resource |-> <<"dynamodb", region, account, prefix, service>>,
       Action |-> "dynamodb"]>>
    \o additionalStatements

PolicyDocument(prefix, service, region, account, additionalStatements) ==
    <<[Effect |-> "Allow", Resource |-> <<"logs", region, account, "*">>,
       Action |-> "logs:CreateLogGroup"],
      [Effect |-> "Allow", Resource |-> <<"logs", region, account, prefix, service>>,
       Action |-> "logs:CreateLogStream"],
      [Effect |-> "Allow", Resource |-> <<"dynamodb", region, account, prefix, service>>,
       Action |-> "dynamodb"]>>
    \o MapSeq(additionalStatements, LAMBDA as :
        [Effect |-> as.Effect,
         Resource |-> MapSeq(as.Resource, LAMBDA part :
                        IF part = "$REGION" THEN region
                        ELSE IF part = "$ACCOUNT" THEN account ELSE part),
         Action |-> as.Action])

\* ------------------------------------------------------- inputs of a sync

MaxRuns == 2
MaxFailures == 1
MaxStmts == 2

\* the function names "a", "b" and "c-a"
NameA == <<"a">>
NameB == <<"b">>
NameC == <<"c", "a">>

\* the declaration of function n in the current ("cur") or the previously
\* deployed ("old") version of the project
HttpFn(n, ver) ==
    [name |-> n,
     method |-> IF n = NameA THEN "GET" ELSE "POST",
     pathPattern |-> IF ver = "cur" THEN n \o <<"/", "*", "/">> ELSE <<"old", "/">> \o n,
     config |-> [timeout |-> IF ver = "cur" THEN <<10>> ELSE <<>>,
                 compute |-> "low", memory |-> "low", nodeVersion |-> ">=20"]]

Code(ver) == <<"index.js", ver>>

CorsSites(ver) == IF ver = "cur" THEN <<"https://web">> ELSE <<"*">>

EmptyEnv == [kind |-> "object", vars |-> {}]
Env(ver) == [kind |-> "object", vars |-> {<<"KEY", ver>>}]

policyStatements ==
    <<[Effect |-> "Allow", Resource |-> <<"sqs", "$REGION", "$ACCOUNT", "queue">>,
       Action |-> "sqs"]>>

\* the safe-list sync receives: the value setupMonitor returned, [] when undefined
lambdaSafeList == IF monitor.result = <<>> THEN {} ELSE Range(monitor.result[1])

RoleArn == <<"role", Prefix, Service>>

\* the regions the configured account may resolve to
Regions == {"eu-central-1", "us-east-1"}

\* a permission statement as the platform stores it
Statement(name, sid, data) == [fn |-> FunctionName(name), Sid |-> sid, data |-> data]

GatewayStatement(name, ver, region) ==
    makeStatementData(region, Account, ApiId, FunctionArn(region, Account, name),
                      HttpFn(name, ver))

\* The remote state a completed deployment of the functions `names` in version
\* `ver` left behind, function a carrying the statements `stmtsA`
\* ("cur": of the current shape, "old": of the previous one).
Deployment(names, ver, env, stmtsA) ==
    LET region == platform.region
        fnOf(n) == HttpFn(n, ver)
    IN
    [role |-> IF names = {} THEN <<>> ELSE <<[Arn |-> RoleArn]>>,
     policy |-> IF names = {} THEN <<>>
                ELSE <<PolicyDocument(Prefix, Service, region, Account, policyStatements)>>,
     functions |-> {AwsFunction(n, lambdaArchitecture(fnOf(n).config),
                                lambdaConfig(fnOf(n).config, RoleArn, env),
                                zip(Code(ver)).sha256) : n \in names},
     api |-> IF names = {} THEN <<>>
             ELSE <<[apiId |-> ApiId, name |-> <<Prefix, Service>>,
                     corsConfiguration |-> corsSettings(CorsSites(ver))]>>,
     stage |-> names # {},
     autoDeploy |-> names # {},
     integrations |->
        {[integrationId |-> <<n, 0>>,
          integrationMethod |-> asIntegration(region, Account, Prefix, Service, fnOf(n)).integrationMethod,
          integrationUri |-> asIntegration(region, Account, Prefix, Service, fnOf(n)).integrationUri,
          timeoutInMillis |-> asIntegration(region, Account, Prefix, Service, fnOf(n)).timeoutInMillis]
         : n \in names},
     routes |->
        {[routeId |-> <<n, 0>>,
          routeKey |-> asRoute(<<n, 0>>, fnOf(n)).routeKey,
          target |-> asRoute(<<n, 0>>, fnOf(n)).target] : n \in names},
     statements |->
        {Statement(NameA, <<NameA, i>>, GatewayStatement(NameA, stmtsA[i], region))
            : i \in DOMAIN stmtsA}
        \cup {Statement(n, <<n, 1>>, GatewayStatement(n, ver, region)) : n \in names \ {NameA}}]

IdleLoc ==
    [role |-> <<>>, created |-> {}, fns |-> <<>>, region |-> <<>>, account |-> <<>>,
     gatewayId |-> <<>>, made |-> {}, ids |-> <<>>, triggers |-> <<>>]

IdleState ==
    [role |-> <<>>, functions |-> <<>>,
     apis |-> [api |-> <<>>, integrations |-> <<>>, routes |-> <<>>, stage |-> FALSE]]

CallOps ==
    {"createRole", "createLambda", "deleteLambda", "putCode", "putConfig",
     "createGateway", "createStage", "updateGateway", "createIntegration",
     "updateIntegration", "deleteIntegration", "createRoute", "updateRoute",
     "deleteRoute", "addTrigger", "deleteTrigger", "putRolePolicy"}

IdleHist ==
    [started |-> {}, completed |-> {}, issued |-> {}, late |-> {},
     calls |-> [op \in CallOps |-> 0], cleanStart |-> FALSE, afterAbort |-> FALSE,
     abortPc |-> "", error |-> <<>>, rejected |-> {}]

Init ==
    /\ IdleCmp /\ IdleEnv /\ IdleLib
    /\ platform \in [region : Regions, omitEmptyEnv : BOOLEAN, reversed : BOOLEAN]
    /\ (platform.region # "eu-central-1" => ~platform.omitEmptyEnv /\ ~platform.reversed)
    /\ environment \in {EmptyEnv, Env("cur")}
    /\ (platform.omitEmptyEnv => environment = EmptyEnv)
    /\ reflection \in {[name |-> Service, http |-> h] :
            h \in {<<>>, <<HttpFn(NameA, "cur")>>, <<HttpFn(NameC, "cur")>>,
                   <<HttpFn(NameA, "cur"), HttpFn(NameB, "cur")>>,
                   <<HttpFn(NameA, "cur"), HttpFn(NameC, "cur")>>}}
    /\ \E names \in SUBSET {NameA, NameB, NameC}, ver \in {"cur", "old"} :
         \E stmtsA \in SeqsUpTo({"cur", "old"}, MaxStmts) :
            /\ (NameA \notin names => stmtsA = <<>>)
            /\ remote = Deployment(names, ver,
                                   IF ver = "cur" THEN environment ELSE Env("old"),
                                   stmtsA)
    /\ run = 0 /\ pc = "idle" /\ pending = {} /\ state = IdleState /\ loc = IdleLoc
    /\ aborted = FALSE /\ failures = 0 /\ host = <<>> /\ hist = IdleHist

\* ------------------------------------------------------- a sync run

NoId == <<<<>>, 0>>

Call(op, fn, id) == [op |-> op, fn |-> fn, id |-> id]

Http == reflection.http

HttpByName(n) == CHOOSE fn \in Range(Http) : fn.name = n

\* Object.fromEntries followed by a lookup: the last entry of a key wins;
\* <<>> stands for undefined
Lookup(entries, key) ==
    LET at == {i \in DOMAIN entries : entries[i][1] = key}
    IN IF at = {} THEN <<>>
       ELSE <<entries[CHOOSE i \in at : \A j \in at : j <= i][2]>>

getApis ==
    IF remote.api = <<>>
    THEN [api |-> <<>>, integrations |-> <<>>, routes |-> <<>>, stage |-> FALSE]
    ELSE [api |-> remote.api,
          integrations |-> Listing(remote.integrations),
          routes |-> Listing(remote.routes),
          stage |-> remote.stage]

getCurrentState ==
    [role |-> remote.role, functions |-> getFunctions(Prefix, Service), apis |-> getApis]

getTriggers(functions) ==
    MapSeq(functions, LAMBDA f :
        [id |-> f.id, name |-> f.name,
         statements |-> Listing({st \in remote.statements : st.fn = FunctionName(f.name)})])

\* the three comparisons of a run, each against the snapshot taken at its start
FnDiff == compare(Http, state.functions)

IntegDiff ==
    compare(Http, MapSeq(state.apis.integrations, LAMBDA i :
        [name |-> IntegrationName(i.integrationUri),
         integrationId |-> i.integrationId,
         integrationMethod |-> i.integrationMethod,
         integrationUri |-> i.integrationUri,
         timeoutInMillis |-> i.timeoutInMillis]))

NameByTarget(ids, target) ==
    LET n == Lookup(MapSeq(ids, LAMBDA e : <<<<"integrations", e[2]>>, e[1]>>), target)
    IN IF n = <<>> THEN <<>> ELSE n[1]

RouteDiff(ids) ==
    compare(Http, MapSeq(state.apis.routes, LAMBDA r :
        [name |-> NameByTarget(ids, r.target),
         routeId |-> r.routeId, routeKey |-> r.routeKey, target |-> r.target]))

FirstDeploy == state.apis.api = <<>>

\* the calls updateLambda issues for one existing function
UpdateLambdaCalls(awsFn) ==
    LET config == HttpByName(awsFn.name).config
        awsConfig == lambdaConfig(config, loc.role, environment)
        codeDiffers ==
            [cpus |-> lambdaArchitecture(config), hash |-> zip(Code("cur")).sha256]
                # [cpus |-> awsFn.cpus, hash |-> awsFn.hash]
        configDiffers ==
            [env |-> awsConfig.Environment, memory |-> awsConfig.MemorySize,
             timeout |-> awsConfig.Timeout, runtime |-> awsConfig.Runtime]
                # [env |-> awsFn.env, memory |-> awsFn.memory,
                   timeout |-> awsFn.timeout, runtime |-> awsFn.runtime]
    IN (IF codeDiffers THEN <<Call("putCode", awsFn.name, NoId)>> ELSE <<>>)
       \o (IF configDiffers THEN <<Call("putConfig", awsFn.name, NoId)>> ELSE <<>>)

IntegrationOf(i) ==
    [integrationMethod |-> i.integrationMethod, integrationUri |-> i.integrationUri,
     timeoutInMillis |-> i.timeoutInMillis]

DesiredIntegration(l, n) ==
    asIntegration(l.region[1], l.account[1], Prefix, Service, HttpByName(n))

DesiredRoute(l, n) == asRoute(Lookup(l.ids, n)[1], HttpByName(n))

\* syncTriggers with the duplicate of a matching statement left in place
TriggerCallsKeepDuplicates(l, fn) ==
    LET trigger == CHOOSE t \in Range(l.triggers) : t.name = fn.name
        statement == makeStatementData(l.region[1], l.account[1], l.gatewayId[1],
                                       trigger.id, fn)
        sts == trigger.statements
        deletes == SelectSeq(sts, LAMBDA st : st.data # statement)
    IN MapSeq(deletes, LAMBDA st : Call("deleteTrigger", fn.name, st.Sid))
       \o (IF \E i \in DOMAIN sts : sts[i].data = statement THEN <<>>
           ELSE <<Call("addTrigger", fn.name, NoId)>>)

\* the calls syncTriggers issues for one declared function: every statement but
\* the first matching one is deleted, in list order, then one is added if none matched
TriggerCalls(l, fn) ==
    IF ~\E t \in Range(l.triggers) : t.name = fn.name
    THEN <<Call("addTrigger", fn.name, NoId)>>
    ELSE
    LET trigger == CHOOSE t \in Range(l.triggers) : t.name = fn.name
        statement == makeStatementData(l.region[1], l.account[1], l.gatewayId[1],
                                       trigger.id, fn)
        sts == trigger.statements
        matching == {i \in DOMAIN sts : sts[i].data = statement}
        kept == IF matching = {} THEN 0 ELSE CHOOSE i \in matching : \A j \in matching : i <= j
        deletes == SelectSeq([i \in DOMAIN sts |-> [i |-> i, st |-> sts[i]]],
                             LAMBDA e : e.i # kept)
    IN MapSeq(deletes, LAMBDA e : Call("deleteTrigger", fn.name, e.st.Sid))
       \o (IF matching = {} THEN <<Call("addTrigger", fn.name, NoId)>> ELSE <<>>)

\* syncGateway calling syncStage on a first deploy as well
StageCallsOnFirstDeploy ==
    IF ~state.apis.stage THEN {<<Call("createStage", <<>>, NoId)>>} ELSE {}

\* syncStage is called for an existing gateway only (createGateway makes the stage
\* of a new one) and creates the stage when the snapshot has none
StageCalls ==
    IF ~FirstDeploy /\ ~state.apis.stage
    THEN {<<Call("createStage", <<>>, NoId)>>} ELSE {}

\* syncLambda deleting every surplus function
DeletableAll(surplus) == Range(surplus)

\* the surplus functions syncLambda deletes: those not in the safe-list
Deletable(surplus) == {x \in Range(surplus) : x.name \notin lambdaSafeList}

\* The tasks a phase of the run starts together (Promise.all); each task is the
\* sequence of remote calls it issues one after the other.
Batch(phase, l) ==
    (CASE phase = "role" ->
            IF state.role = <<>> THEN {<<Call("createRole", <<>>, NoId)>>} ELSE {}
       [] phase = "fnCreate" ->
            {<<Call("createLambda", fn.name, NoId)>> : fn \in Range(FnDiff.missing)}
       [] phase = "fnDelete" ->
            {<<Call("deleteLambda", f.name, NoId)>> : f \in Deletable(FnDiff.surplus)}
       [] phase = "fnUpdate" ->
            {UpdateLambdaCalls(f) : f \in Range(FnDiff.existing)}
       [] phase = "gwApi" ->
            IF FirstDeploy
            THEN {<<Call("createGateway", <<>>, NoId), Call("createStage", <<>>, NoId)>>}
            ELSE IF corsSettings(CorsSites("cur")) # state.apis.api[1].corsConfiguration
                 THEN {<<Call("updateGateway", <<>>, NoId)>>} ELSE {}
       [] phase = "gwStage" -> StageCalls
       [] phase = "integ" ->
            IF FirstDeploy
            THEN {<<Call("createIntegration", fn.name, NoId)>> : fn \in Range(Http)}
            ELSE {<<Call("createIntegration", fn.name, NoId)>> :
                    fn \in Range(IntegDiff.missing)}
                 \cup {IF IntegrationOf(e) = DesiredIntegration(l, e.name) THEN <<>>
                       ELSE <<Call("updateIntegration", e.name, e.integrationId)>> :
                       e \in Range(IntegDiff.existing)}
       [] phase = "route" ->
            IF FirstDeploy
            THEN {<<Call("createRoute", fn.name, NoId)>> : fn \in Range(Http)}
            ELSE {<<Call("deleteRoute", r.name, r.routeId)>> :
                    r \in Range(RouteDiff(l.ids).surplus)}
                 \cup {<<Call("createRoute", fn.name, NoId)>> :
                    fn \in Range(RouteDiff(l.ids).missing)}
                 \cup {IF [routeKey |-> r.routeKey, target |-> r.target]
                            = DesiredRoute(l, r.name) THEN <<>>
                       ELSE <<Call("updateRoute", r.name, r.routeId)>> :
                       r \in Range(RouteDiff(l.ids).existing)}
       [] phase = "integDelete" ->
            IF FirstDeploy THEN {}
            ELSE {<<Call("deleteIntegration", i.name, i.integrationId)>> :
                    i \in Range(IntegDiff.surplus)}
       [] phase = "triggers" -> {TriggerCalls(l, fn) : fn \in Range(Http)}
       [] phase = "policy" -> {<<Call("putRolePolicy", <<>>, NoId)>>}
       [] OTHER -> {}) \ {<<>>}

\* asRoute throws when the integration ID of a function it needs is undefined
RouteThrows(l) ==
    \E fn \in Range(Http) : Lookup(l.ids, fn.name) = <<>>
        /\ (FirstDeploy
            \/ fn \in Range(RouteDiff(l.ids).missing)
            \/ \E r \in Range(RouteDiff(l.ids).existing) : r.name = fn.name)

Throws(phase, l) == phase = "route" /\ RouteThrows(l)

PhaseOrder ==
    <<"start", "role", "fnCreate", "fnDelete", "fnUpdate", "derive", "gwApi", "gwStage",
      "integ", "route", "integDelete", "getTriggers", "triggers", "policy", "return",
      "done">>

Successor(order, phase) ==
    order[(CHOOSE i \in DOMAIN order : order[i] = phase) + 1]

\* sync with the policy assigned before the triggers are synced
NextPhasePolicyFirst(phase) ==
    Successor(<<"start", "role", "fnCreate", "fnDelete", "fnUpdate", "derive", "gwApi",
                "gwStage", "integ", "route", "integDelete", "policy", "getTriggers",
                "triggers", "return", "done">>, phase)

\* syncGateway with the surplus integrations deleted before the routes are synced
NextPhaseDeleteFirst(phase) ==
    Successor(<<"start", "role", "fnCreate", "fnDelete", "fnUpdate", "derive", "gwApi",
                "gwStage", "integ", "integDelete", "route", "getTriggers", "triggers",
                "policy", "return", "done">>, phase)

\* syncGateway with the stage synced after the integrations
NextPhaseStageLate(phase) ==
    Successor(<<"start", "role", "fnCreate", "fnDelete", "fnUpdate", "derive", "gwApi",
                "integ", "gwStage", "route", "integDelete", "getTriggers", "triggers",
                "policy", "return", "done">>, phase)

NextPhase(phase) == Successor(PhaseOrder, phase)

StepOf(phase) ==
    CASE phase \in {"fnCreate", "fnDelete", "fnUpdate"} -> "functions"
      [] phase \in {"gwApi", "gwStage", "integ", "route", "integDelete"} -> "gateway"
      [] phase \in {"getTriggers", "triggers"} -> "triggers"
      [] OTHER -> phase

MadeId(l, n) == (CHOOSE m \in l.made : m[1] = n)[2]

\* the region and the account of the identifier of the first function sync
\* holds, empty when it holds none
RegionOf(l) == IF l.fns = <<>> THEN "" ELSE l.fns[1].id[4]
AccountOf(l) == IF l.fns = <<>> THEN "" ELSE l.fns[1].id[5]

\* sync that goes on without a region or an account
NeverWeird(l) == FALSE

\* sync throws when it has no region or no account
Weird(l) == RegionOf(l) = "" \/ AccountOf(l) = ""

\* what a phase leaves in the locals of the run when its tasks have completed
Collect(phase, l) ==
    CASE phase = "role" ->
            [l EXCEPT !.role = IF state.role # <<>> THEN <<state.role[1].Arn>> ELSE @]
      [] phase = "fnUpdate" ->
            [l EXCEPT !.fns =
                MapSeq(state.functions, LAMBDA f : [id |-> f.id, name |-> f.name])
                \o MapSeq(FnDiff.missing, LAMBDA fn :
                        CHOOSE c \in l.created : c.name = fn.name)]
      [] phase = "derive" ->
            [l EXCEPT !.region = <<RegionOf(l)>>, !.account = <<AccountOf(l)>>]
      [] phase = "gwApi" ->
            [l EXCEPT !.gatewayId =
                IF FirstDeploy THEN <<remote.api[1].apiId>> ELSE <<state.apis.api[1].apiId>>]
      [] phase = "integ" ->
            [l EXCEPT !.ids =
                IF FirstDeploy
                THEN MapSeq(Http, LAMBDA fn : <<fn.name, MadeId(l, fn.name)>>)
                ELSE MapSeq(IntegDiff.missing, LAMBDA fn : <<fn.name, MadeId(l, fn.name)>>)
                     \o MapSeq(IntegDiff.existing, LAMBDA e : <<e.name, e.integrationId>>)]
      [] phase = "getTriggers" -> [l EXCEPT !.triggers = getTriggers(l.fns)]
      [] OTHER -> l

BaseUrl(gatewayId) == <<"https", gatewayId, "execute-api", "eu-central-1", "amazonaws.com">>

\* an await resumes the run only when every task of the batch has resolved
CanAdvanceAfterFailure == pending = {}

CanAdvance == pending = {} /\ ~aborted

inputs == <<platform, reflection, environment>>

StartRun ==
    /\ run < MaxRuns
    /\ pc \in {"idle", "done"} \/ aborted
    /\ run' = run + 1
    /\ state' = getCurrentState
    /\ pc' = "start"
    /\ pending' = {}
    /\ loc' = IdleLoc
    /\ aborted' = FALSE
    /\ host' = <<>>
    /\ hist' = [IdleHist EXCEPT
                    !.cleanStart = (pc = "done"),
                    !.afterAbort = aborted /\ \E op \in CallOps : hist.calls[op] > 0]
    /\ UNCHANGED <<cmpVars, envVars, libVars, inputs, remote, failures>>

Advance ==
    /\ pc \in Range(PhaseOrder) \ {"done"}
    /\ CanAdvance
    /\ monitor.pc \in {"off", "returned"}
    /\ UNCHANGED <<cmpVars, envVars, libVars, inputs, remote, run, state, failures>>
    /\ IF pc = "derive" /\ Weird(loc)
       THEN /\ aborted' = TRUE
            /\ hist' = [hist EXCEPT !.abortPc = pc]
            /\ UNCHANGED <<pc, pending, loc, host>>
       ELSE LET l1 == Collect(pc, loc)
                np == NextPhase(pc)
                h1 == [hist EXCEPT
                         !.started = @ \cup {StepOf(np)},
                         !.completed = IF StepOf(np) # StepOf(pc)
                                       THEN @ \cup {StepOf(pc)} ELSE @]
            IN  /\ pc' = np
                /\ loc' = l1
                /\ IF Throws(np, l1)
                   THEN /\ aborted' = TRUE
                        /\ pending' = {}
                        /\ hist' = [h1 EXCEPT !.abortPc = np]
                        /\ host' = host
                   ELSE /\ aborted' = aborted
                        /\ pending' = Batch(np, l1)
                        /\ hist' = h1
                        /\ host' = IF np = "done" THEN <<BaseUrl(l1.gatewayId[1])>> ELSE host

\* a remote call answers with an error: its task rejects and the run aborts
Fail ==
    /\ ~aborted
    /\ failures < MaxFailures
    /\ \E t \in pending :
        /\ pending' = pending \ {t}
        /\ hist' = [hist EXCEPT !.abortPc = pc, !.error = <<Head(t).op>>]
    /\ aborted' = TRUE
    /\ failures' = failures + 1
    /\ UNCHANGED <<cmpVars, envVars, libVars, inputs, remote, run, pc, state, loc, host>>

\* The first call of task t is sent and answered: the task goes on with its
\* next call, or rejects, and aborts the run, when the platform refuses the call.
Answer(t, op, refused) ==
    /\ t \in pending
    /\ Head(t).op = op
    /\ pending' = (pending \ {t}) \cup (IF Len(t) > 1 /\ ~refused THEN {Tail(t)} ELSE {})
    /\ aborted' = (aborted \/ refused)
    /\ hist' = [hist EXCEPT
            !.calls[op] = @ + 1,
            !.issued = @ \cup {<<StepOf(pc), op>>},
            !.late = IF aborted THEN @ \cup {StepOf(pc)} ELSE @,
            !.abortPc = IF refused /\ ~aborted THEN pc ELSE @,
            !.error = IF refused /\ ~aborted THEN <<op>> ELSE @,
            !.rejected = IF refused THEN @ \cup {op} ELSE @]
    /\ UNCHANGED <<cmpVars, envVars, libVars, inputs, run, pc, state, failures, host>>

Issue(t, op) == Answer(t, op, FALSE)

\* ------------------------------------------------------- remote calls

CreateRole ==
    \E t \in pending :
        /\ Issue(t, "createRole")
        /\ remote' = [remote EXCEPT !.role = <<[Arn |-> RoleArn]>>]
        /\ loc' = [loc EXCEPT !.role = <<RoleArn>>]

CreateLambda ==
    \E t \in pending :
        /\ Issue(t, "createLambda")
        /\ LET fn == HttpByName(Head(t).fn)
               made == AwsFunction(fn.name, lambdaArchitecture(fn.config),
                                   lambdaConfig(fn.config, loc.role, environment),
                                   zip(Code("cur")).sha256)
           IN /\ remote' = [remote EXCEPT !.functions = @ \cup {made}]
              /\ loc' = [loc EXCEPT !.created =
                            @ \cup {[name |-> fn.name, id |-> made.FunctionArn]}]

\* deleting a function removes its resource policy with it
DeleteLambda ==
    \E t \in pending :
        /\ Issue(t, "deleteLambda")
        /\ remote' = [remote EXCEPT
              !.functions = {f \in @ : f.FunctionName # FunctionName(Head(t).fn)},
              !.statements = {st \in @ : st.fn # FunctionName(Head(t).fn)}]
        /\ loc' = loc

UpdateLambdaCode ==
    \E t \in pending :
        /\ Issue(t, "putCode")
        /\ LET fn == HttpByName(Head(t).fn)
           IN remote' = [remote EXCEPT !.functions =
                {IF f.FunctionName = FunctionName(fn.name)
                 THEN [f EXCEPT !.CodeSha256 = zip(Code("cur")).sha256,
                                !.Architectures = lambdaArchitecture(fn.config)]
                 ELSE f : f \in @}]
        /\ loc' = loc

UpdateLambdaConfig ==
    \E t \in pending :
        /\ Issue(t, "putConfig")
        /\ LET fn == HttpByName(Head(t).fn)
               awsConfig == lambdaConfig(fn.config, loc.role, environment)
           IN remote' = [remote EXCEPT !.functions =
                {IF f.FunctionName = FunctionName(fn.name)
                 THEN [f EXCEPT !.Runtime = awsConfig.Runtime,
                                !.MemorySize = awsConfig.MemorySize,
                                !.Timeout = awsConfig.Timeout,
                                !.Environment = StoredEnvironment(awsConfig.Environment.vars)]
                 ELSE f : f \in @}]
        /\ loc' = loc

CreateGateway ==
    \E t \in pending :
        /\ Issue(t, "createGateway")
        /\ remote' = [remote EXCEPT !.api =
              <<[apiId |-> ApiId, name |-> <<Prefix, Service>>,
                 corsConfiguration |-> corsSettings(CorsSites("cur"))]>>]
        /\ loc' = loc

UpdateGateway ==
    \E t \in pending :
        /\ Issue(t, "updateGateway")
        /\ remote' = [remote EXCEPT !.api =
              <<[@[1] EXCEPT !.corsConfiguration = corsSettings(CorsSites("cur"))]>>]
        /\ loc' = loc

CreateStage ==
    \E t \in pending :
        /\ Issue(t, "createStage")
        /\ remote' = [remote EXCEPT !.stage = TRUE, !.autoDeploy = TRUE]
        /\ loc' = loc

StoredIntegration(id, integration) ==
    [integrationId |-> id,
     integrationMethod |-> integration.integrationMethod,
     integrationUri |-> integration.integrationUri,
     timeoutInMillis |-> integration.timeoutInMillis]

CreateIntegration ==
    \E t \in pending :
        /\ Issue(t, "createIntegration")
        /\ LET n == Head(t).fn
               id == <<n, run>>
           IN /\ remote' = [remote EXCEPT !.integrations =
                    @ \cup {StoredIntegration(id, DesiredIntegration(loc, n))}]
              /\ loc' = [loc EXCEPT !.made = @ \cup {<<n, id>>}]

UpdateIntegration ==
    \E t \in pending :
        /\ Issue(t, "updateIntegration")
        /\ remote' = [remote EXCEPT !.integrations =
              {IF i.integrationId = Head(t).id
               THEN StoredIntegration(i.integrationId, DesiredIntegration(loc, Head(t).fn))
               ELSE i : i \in @}]
        /\ loc' = loc

StoredRoute(id, route) ==
    [routeId |-> id, routeKey |-> route.routeKey, target |-> route.target]

\* the platform refuses a route whose key another route of the API carries
CreateRoute ==
    \E t \in pending :
        LET route == DesiredRoute(loc, Head(t).fn)
            taken == \E r \in remote.routes : r.routeKey = route.routeKey
        IN /\ Answer(t, "createRoute", taken)
           /\ remote' = IF taken THEN remote
                         ELSE [remote EXCEPT !.routes =
                                @ \cup {StoredRoute(<<Head(t).fn, run>>, route)}]
           /\ loc' = loc

UpdateRoute ==
    \E t \in pending :
        LET route == DesiredRoute(loc, Head(t).fn)
            taken == \E r \in remote.routes :
                        r.routeId # Head(t).id /\ r.routeKey = route.routeKey
        IN /\ Answer(t, "updateRoute", taken)
           /\ remote' = IF taken THEN remote
                         ELSE [remote EXCEPT !.routes =
                                {IF r.routeId = Head(t).id
                                 THEN StoredRoute(r.routeId, route)
                                 ELSE r : r \in @}]
           /\ loc' = loc

DeleteRoute ==
    \E t \in pending :
        /\ Issue(t, "deleteRoute")
        /\ remote' = [remote EXCEPT !.routes = {r \in @ : r.routeId # Head(t).id}]
        /\ loc' = loc

\* the platform refuses to delete an integration that a route still targets
DeleteIntegration ==
    \E t \in pending :
        LET referenced == \E r \in remote.routes : r.target = <<"integrations", Head(t).id>>
        IN /\ Answer(t, "deleteIntegration", referenced)
           /\ remote' = IF referenced THEN remote
                         ELSE [remote EXCEPT !.integrations =
                                {i \in @ : i.integrationId # Head(t).id}]
           /\ loc' = loc

\* the platform fills in Effect and Resource of the statement it stores
AddTrigger ==
    \E t \in pending :
        /\ Issue(t, "addTrigger")
        /\ LET fn == HttpByName(Head(t).fn)
               known == {f \in Range(loc.fns) : f.name = fn.name}
               statement == makeStatementData(loc.region[1], loc.account[1],
                                loc.gatewayId[1],
                                IF known = {} THEN <<>> ELSE (CHOOSE f \in known : TRUE).id,
                                fn)
               stored == [Action |-> statement.Action,
                          Effect |-> "Allow",
                          Principal |-> [Service |-> statement.Principal.Service],
                          Resource |-> FunctionArn(platform.region, Account, fn.name),
                          Condition |-> statement.Condition]
           IN remote' = [remote EXCEPT !.statements =
                    @ \cup {Statement(fn.name, <<fn.name, MaxStmts + run>>, stored)}]
        /\ loc' = loc

DeleteTrigger ==
    \E t \in pending :
        /\ Issue(t, "deleteTrigger")
        /\ remote' = [remote EXCEPT !.statements =
              {st \in @ : ~(st.fn = FunctionName(Head(t).fn) /\ st.Sid = Head(t).id)}]
        /\ loc' = loc

AssignPolicy ==
    \E t \in pending :
        /\ Issue(t, "putRolePolicy")
        /\ remote' = [remote EXCEPT !.policy =
              <<PolicyDocument(Prefix, Service, loc.region[1], loc.account[1],
                               policyStatements)>>]
        /\ loc' = loc

SyncStep ==
    \/ Advance \/ Fail
    \/ CreateRole \/ CreateLambda \/ DeleteLambda \/ UpdateLambdaCode \/ UpdateLambdaConfig
    \/ CreateGateway \/ UpdateGateway \/ CreateStage
    \/ CreateIntegration \/ UpdateIntegration \/ DeleteIntegration
    \/ CreateRoute \/ UpdateRoute \/ DeleteRoute
    \/ AddTrigger \/ DeleteTrigger \/ AssignPolicy

Next == StartRun \/ SyncStep

Spec == Init /\ [][Next]_vars

\* ------------------------------------------------------- alerting setup

\* the listener function 'alarm-handler' deployed from the template
ListenerName == <<"alarm", "handler">>

ListenerConfig == [timeout |-> <<>>, compute |-> "low", memory |-> "low", nodeVersion |-> ">=20"]

ListenerEnv(ver) == [kind |-> "object", vars |-> {<<"SLACK_WEBHOOK_URL", ver>>}]

TopicArn(region) ==
    <<"arn", "aws", "sns", region, Account, "topic", <<Prefix, Service, "errors">>>>

\* the statement that lets the topic invoke the listener
snsStatementData(functionId, topicArn) ==
    [Action |-> "lambda:InvokeFunction",
     Effect |-> "Allow",
     Principal |-> [Service |-> "sns.amazonaws.com"],
     Resource |-> functionId,
     Condition |-> topicArn]

ListenerFunction(ver) ==
    AwsFunction(ListenerName, lambdaArchitecture(ListenerConfig),
                lambdaConfig(ListenerConfig, RoleArn, ListenerEnv(ver)),
                zip(<<"alarm-handler.js", ver>>).sha256)

\* the listener a previous deployment left behind, with its statement
ListenerDeployment(ver) ==
    [functions |-> {ListenerFunction(ver)},
     statements |->
        {Statement(ListenerName, <<ListenerName, 1>>,
                   snsStatementData(FunctionArn(platform.region, Account, ListenerName),
                                    IF ver = "cur" THEN TopicArn(platform.region)
                                    ELSE TopicArn("old")))}]

\* the try block of setupMonitor begins after the test of the configuration
InTryAfterEnv(step) == step \notin {"config", "env"}

InTry(step) == step # "config"

\* a step of setupMonitor throws: inside the try block the error is caught, a
\* warning is logged and undefined is returned; outside it the error escapes
Thrown(step) ==
    IF InTry(step)
    THEN [monitor EXCEPT !.pc = "returned", !.thrown = <<step>>, !.warned = TRUE,
                         !.result = <<>>]
    ELSE [monitor EXCEPT !.pc = "raised", !.thrown = <<step>>, !.raised = TRUE]

syncUnchanged ==
    UNCHANGED <<cmpVars, pureVars, envVars, routeVars, loopVars, inputs, run, pc, pending, state, loc,
                aborted, failures, host, hist>>

\* the monitor configuration setupMonitor is handed: none ("off": the option is
\* not set, or the project has no configuration), or one with or without its
\* endpoint and its subject
MonitorOptions == {"off", "noEndpoint", "emptyEndpoint", "noSubject", "empty", "valid"}

MonitorOption(option) ==
    CASE option = "off" -> <<>>
      [] option = "noEndpoint" -> <<[endpoint |-> <<>>, subject |-> <<"errors">>]>>
      [] option = "emptyEndpoint" -> <<[endpoint |-> <<"">>, subject |-> <<"errors">>]>>
      [] option = "noSubject" -> <<[endpoint |-> <<"https://hooks">>, subject |-> <<>>]>>
      [] option = "empty" -> <<[endpoint |-> <<>>, subject |-> <<>>]>>
      [] OTHER -> <<[endpoint |-> <<"https://hooks">>, subject |-> <<"errors">>]>>

\* an absent value and the empty string are falsy
Truthy(v) == v # <<>> /\ v # <<"">>

\* the test of setupTelemetry, which has no subject to look for
CompleteWithEndpoint(config) == Truthy(config.endpoint)

Complete(config) == Truthy(config.endpoint) /\ Truthy(config.subject)

MonitorConfig ==
    /\ pc = "start" /\ monitor.pc = "config"
    /\ LET config == MonitorOption(monitor.config)
       IN monitor' =
            IF config = <<>> THEN [monitor EXCEPT !.pc = "returned"]
            ELSE IF ~Complete(config[1])
            THEN [monitor EXCEPT !.pc = "returned", !.warned = TRUE]
            ELSE [monitor EXCEPT !.pc = "env"]
    /\ UNCHANGED remote /\ syncUnchanged

\* localAwsEnv reads the credentials of the profile, or throws
MonitorEnv ==
    /\ pc = "start" /\ monitor.pc = "env"
    /\ \E ok \in BOOLEAN :
          monitor' = IF ok THEN [monitor EXCEPT !.pc = "listener"] ELSE Thrown("env")
    /\ UNCHANGED remote /\ syncUnchanged

\* setupListener: the listener is created when the platform has none, updated
\* when its code or environment differs, and left alone otherwise
MonitorListener ==
    /\ pc = "start" /\ monitor.pc = "listener"
    /\ syncUnchanged
    /\ \E ok \in BOOLEAN :
        LET found == {f \in remote.functions : f.FunctionName = FunctionName(ListenerName)}
            desired == ListenerFunction("cur")
            differs == \E f \in found :
                          \/ f.CodeSha256 # desired.CodeSha256
                          \/ f.Environment # desired.Environment
            writes == found = {} \/ differs
            made == [name |-> ListenerName, id |-> desired.FunctionArn]
        IN IF ~ok \/ (writes /\ remote.role = <<>>)
           THEN monitor' = Thrown("listener") /\ UNCHANGED remote
           ELSE /\ monitor' = [monitor EXCEPT !.pc = "topic", !.listener = <<made>>]
                /\ remote' = IF writes
                              THEN [remote EXCEPT !.functions = (@ \ found) \cup {desired}]
                              ELSE remote

MonitorTopic ==
    /\ pc = "start" /\ monitor.pc = "topic"
    /\ \E ok \in BOOLEAN :
          monitor' = IF ok THEN [monitor EXCEPT !.pc = "trigger", !.topic = TRUE]
                     ELSE Thrown("topic")
    /\ UNCHANGED remote /\ syncUnchanged

\* ensureTrigger: the listener carries the statement of the topic and no other
MonitorTrigger ==
    /\ pc = "start" /\ monitor.pc = "trigger"
    /\ syncUnchanged
    /\ \E ok \in BOOLEAN :
        LET sts == {st \in remote.statements : st.fn = FunctionName(ListenerName)}
            statement == snsStatementData(monitor.listener[1].id, TopicArn(platform.region))
            added == Statement(ListenerName, <<ListenerName, MaxStmts + 1>>, statement)
        IN IF ~ok \/ Cardinality(sts) > 1
           THEN monitor' = Thrown("trigger") /\ UNCHANGED remote
           ELSE /\ monitor' = [monitor EXCEPT !.pc = "functions"]
                /\ remote' = IF \E st \in sts : st.data = statement THEN remote
                              ELSE [remote EXCEPT !.statements = (@ \ sts) \cup {added}]

\* getFunctions answers from the list cached by the snapshot unless that list
\* was empty; the listener itself gets no alarm
MonitorFunctions ==
    /\ pc = "start" /\ monitor.pc = "functions"
    /\ \E ok \in BOOLEAN :
        LET functions == IF state.functions = <<>> THEN getFunctions(Prefix, Service)
                         ELSE state.functions
            others == SelectSeq(functions, LAMBDA f : f.name # monitor.listener[1].name)
        IN monitor' = IF ok \/ state.functions # <<>>
                      THEN [monitor EXCEPT !.pc = "alarms",
                                           !.todo = MapSeq(others, LAMBDA f : f.name)]
                      ELSE Thrown("functions")
    /\ UNCHANGED remote /\ syncUnchanged

\* one turn of the loop: setupAlarm for the next function
MonitorAlarm ==
    /\ pc = "start" /\ monitor.pc = "alarms" /\ monitor.todo # <<>>
    /\ \E ok \in BOOLEAN :
          monitor' = IF ok THEN [monitor EXCEPT !.todo = Tail(@),
                                                !.alarms = @ \cup {Head(monitor.todo)}]
                     ELSE Thrown("alarms")
    /\ UNCHANGED remote /\ syncUnchanged

MonitorReturn ==
    /\ pc = "start" /\ monitor.pc = "alarms" /\ monitor.todo = <<>>
    /\ monitor' = [monitor EXCEPT !.pc = "returned",
                                  !.result = <<<<monitor.listener[1].name>>>>]
    /\ UNCHANGED remote /\ syncUnchanged

setupMonitor ==
    \/ MonitorConfig \/ MonitorEnv \/ MonitorListener \/ MonitorTopic \/ MonitorTrigger
    \/ MonitorFunctions \/ MonitorAlarm \/ MonitorReturn

\* ------------------------------------------------------- a deployment

\* the safe-lists a caller of sync other than the deploy command may pass
GivenSafeLists == {<<NameB>>, <<ListenerName>>, <<NameB, ListenerName>>}

\* a second integration of function a, as an interrupted or repeated creation
\* leaves it on the gateway
SecondIntegration(ver) ==
    StoredIntegration(<<NameA, 1>>,
                      asIntegration(platform.region, Account, Prefix, Service,
                                    HttpFn(NameA, ver)))

\* One deployment: the platform holds what a previous deployment left, with or
\* without a listener, a second integration of a, or a stage whose auto-deploy
\* was switched off by hand; the monitor option is off, badly configured or set,
\* or sync is called with a given safe-list.
InitDeploy ==
    /\ IdleCmp /\ IdlePure /\ IdleEnv /\ IdleRoute /\ IdleLoops
    /\ platform = [region |-> "eu-central-1", omitEmptyEnv |-> FALSE, reversed |-> FALSE]
    /\ environment = Env("cur")
    /\ reflection \in {[name |-> Service, http |-> h] :
            h \in {<<HttpFn(NameA, "cur")>>, <<HttpFn(NameA, "cur"), HttpFn(NameB, "cur")>>}}
    /\ \E names \in SUBSET {NameA, NameB}, ver \in {"cur", "old"},
          listener \in {"none", "cur", "old"}, second \in BOOLEAN, manual \in BOOLEAN :
         LET left == Deployment(names, ver, Env(ver),
                                IF NameA \in names THEN <<ver>> ELSE <<>>)
             base == IF second
                     THEN [left EXCEPT !.integrations = @ \cup {SecondIntegration(ver)}]
                     ELSE IF manual THEN [left EXCEPT !.autoDeploy = FALSE]
                     ELSE left
         IN  /\ (names = {} => listener = "none")
             /\ (second => NameA \in names /\ listener = "none")
             /\ (manual => names # {} /\ listener = "none" /\ ~second)
             /\ remote =
                   IF listener = "none" THEN base
                   ELSE [base EXCEPT
                           !.functions = @ \cup ListenerDeployment(listener).functions,
                           !.statements = @ \cup ListenerDeployment(listener).statements]
    /\ monitor \in {[IdleMonitor EXCEPT !.pc = "config", !.config = c] :
                        c \in MonitorOptions}
                   \cup {[IdleMonitor EXCEPT !.result = <<given>>] : given \in GivenSafeLists}
    /\ run = 0 /\ pc = "idle" /\ pending = {} /\ state = IdleState /\ loc = IdleLoc
    /\ aborted = FALSE /\ failures = 0 /\ host = <<>> /\ hist = IdleHist

\* getCurrentState, once per deployment
StartDeploy == run = 0 /\ StartRun

NextDeploy == StartDeploy \/ setupMonitor \/ SyncStep

SpecDeploy == InitDeploy /\ [][NextDeploy]_vars

\* ------------------------------------------------------- claims about sync

PendingCalls == UNION {Range(t) : t \in pending}

PendingOps == {c.op : c \in PendingCalls}

Total(ops) ==
    LET RECURSIVE sum(_)
        sum(S) == IF S = {} THEN 0
                  ELSE LET o == CHOOSE x \in S : TRUE IN hist.calls[o] + sum(S \ {o})
    IN sum(ops)

DesiredNames == NamesOf(Http)

StatementsOf(n) == {st \in remote.statements : st.fn = FunctionName(n)}

IntegrationsOf(n) ==
    {i \in remote.integrations :
        i.integrationUri = FunctionArn(platform.region, Account, n)}

RoutesOf(n) ==
    {r \in remote.routes :
        \E i \in IntegrationsOf(n) : r.target = <<"integrations", i.integrationId>>}

\* the converged remote state of the declared functions
Converged ==
    /\ remote.role # <<>>
    /\ remote.api # <<>> /\ remote.stage
    /\ \A fn \in Range(Http) :
        /\ Cardinality({f \in remote.functions :
                            f.FunctionName = FunctionName(fn.name)}) = 1
        /\ Cardinality(IntegrationsOf(fn.name)) = 1
        /\ Cardinality(RoutesOf(fn.name)) = 1
        /\ \A r \in RoutesOf(fn.name) :
                r.routeKey = asRoute(NoId, fn).routeKey
        /\ Cardinality(StatementsOf(fn.name)) = 1
        /\ \A st \in StatementsOf(fn.name) :
                st.data = GatewayStatement(fn.name, "cur", platform.region)
    /\ \A f \in remote.functions : \E n \in DesiredNames : f.FunctionName = FunctionName(n)
    /\ \A i \in remote.integrations : \E n \in DesiredNames : i \in IntegrationsOf(n)
    /\ \A r \in remote.routes : \E n \in DesiredNames : r \in RoutesOf(n)
    /\ \A st \in remote.statements : \E n \in DesiredNames : st.fn = FunctionName(n)

\* C2 (as claimed): a run that starts right after a completed run issues no
\* create, update or delete call at all.
C2_SecondRunIssuesNothing ==
    hist.cleanStart => \A op \in CallOps : hist.calls[op] = 0

\* What a run after a completed run does issue when no function name has a
\* dash: the policy write, and a configuration write per function when the
\* environment is empty and the platform lists such functions without an
\* Environment block.
SecondRunCalls ==
    (/\ hist.cleanStart
     /\ \A fn \in Range(Http) : Len(fn.name) = 1
     /\ \A i \in remote.integrations : Len(Last(i.integrationUri)) = 3) =>
        /\ \A op \in CallOps \ {"putRolePolicy", "putConfig"} : hist.calls[op] = 0
        /\ hist.calls["putConfig"] > 0 => platform.omitEmptyEnv /\ environment = EmptyEnv

\* the run started against a remote holding no role, function or gateway
EmptyStart == state.role = <<>> /\ state.functions = <<>> /\ state.apis.api = <<>>

CreateOps ==
    {"createRole", "createLambda", "createGateway", "createStage", "createIntegration",
     "createRoute", "addTrigger"}

ChangeOps ==
    {"deleteLambda", "putCode", "putConfig", "updateGateway", "updateIntegration",
     "deleteIntegration", "updateRoute", "deleteRoute", "deleteTrigger"}

\* C15: a completed sync of one declared HTTP function against an empty remote has
\* issued exactly one createRole, createLambda, createGateway, createStage,
\* createIntegration, createRoute and addTrigger and no update or delete call; the
\* route targets the integration and the statement is the gateway-invoke statement.
C15_FirstDeployCalls ==
    (pc = "done" /\ EmptyStart /\ Len(Http) = 1) =>
        /\ \A op \in CreateOps : hist.calls[op] = 1
        /\ \A op \in ChangeOps : hist.calls[op] = 0
        /\ Cardinality(remote.integrations) = 1 /\ Cardinality(remote.routes) = 1
        /\ \A r \in remote.routes : \A i \in remote.integrations :
                r.target = <<"integrations", i.integrationId>>
        /\ \A st \in remote.statements :
                st.data = GatewayStatement(Http[1].name, "cur", platform.region)

C15_Witness ==
    /\ pc = "done" /\ EmptyStart /\ Len(Http) = 1
    /\ hist.calls["createRoute"] = 1 /\ hist.calls["addTrigger"] = 1
    /\ Cardinality(remote.statements) = 1

\* C16: the base URL a completed sync returns is https://{apiId}.execute-api.
\* {region}.amazonaws.com/ with the gateway ID of the gateway step and the region
\* derived from the first function identifier of the run, in every region.
C16_BaseUrlRegion ==
    pc = "done" =>
        host = <<<<"https", loc.gatewayId[1], "execute-api", loc.region[1], "amazonaws.com">>>>

\* C17: setupMonitor never raises: when any of its steps (credentials, listener,
\* topic, trigger, listing, alarm) throws, the error is caught, a warning is logged
\* and undefined is returned, and the sync of the deployment can then begin.
C17_MonitorNeverRaises ==
    /\ ~monitor.raised
    /\ monitor.thrown # <<>> =>
          /\ monitor.pc = "returned" /\ monitor.warned /\ monitor.result = <<>>
          /\ (pc = "start" => ENABLED Advance)

C17_Witness ==
    /\ monitor.thrown = <<"alarms">> /\ monitor.warned /\ monitor.result = <<>>
    /\ pc = "done"

\* C18: no step deletes a function whose name is in the safe-list of the run,
\* whatever the declared and the deployed functions are; the listener setupMonitor
\* returned is still deployed when the sync of the same run has completed.
C18_SafeListKept ==
    [][\A f \in remote.functions :
          (\E n \in lambdaSafeList : f.FunctionName = FunctionName(n)) =>
              \E g \in remote'.functions : g.FunctionName = f.FunctionName]_vars

\* the listener returned by setupMonitor was in the snapshot, is not declared, and
\* is deployed after a sync that deleted another surplus function
C18_Witness ==
    /\ pc = "done"
    /\ monitor.config = "valid" /\ monitor.result = <<<<ListenerName>>>>
    /\ \E i \in DOMAIN state.functions : state.functions[i].name = ListenerName
    /\ ListenerName \notin DesiredNames
    /\ hist.calls["deleteLambda"] > 0
    /\ \E f \in remote.functions : f.FunctionName = FunctionName(ListenerName)

\* syncGateway has returned in this run
GatewaySynced == pc \in {"getTriggers", "triggers", "policy", "return", "done"}

\* C28: when syncGateway has returned, the $default stage of the gateway exists
\* and has auto-deploy enabled, whether the stage was there before the run or not.
C28_StageAutoDeploy == GatewaySynced => (remote.stage /\ remote.autoDeploy)

\* the part of it that concerns the existence of the stage
C28_StageExists == GatewaySynced => remote.stage

\* a run that found the stage in place, with auto-deploy on, and left it so
C28_Witness ==
    /\ GatewaySynced /\ remote.stage /\ remote.autoDeploy
    /\ hist.calls["createStage"] = 0 /\ state.apis.stage

\* setupMonitor is called with a configuration that is falsy or lacks its
\* endpoint or subject
Unconfigured ==
    LET config == MonitorOption(monitor.config)
    IN /\ monitor.pc # "off"
       /\ \/ config = <<>>
          \/ config[1].endpoint \in {<<>>, <<"">>}
          \/ config[1].subject = <<>>

\* C30: setupMonitor with a configuration that is falsy or lacks its endpoint
\* or its subject returns undefined without raising, has made no listener, topic,
\* trigger or alarm, and none of its steps changes the platform.
C30_UnconfiguredMonitor ==
    /\ [](Unconfigured =>
            /\ monitor.pc \in {"config", "returned"}
            /\ monitor.listener = <<>> /\ ~monitor.topic /\ monitor.alarms = {}
            /\ monitor.thrown = <<>> /\ ~monitor.raised
            /\ monitor.result = <<>>)
    /\ [][(Unconfigured /\ monitor' # monitor) =>
            (remote' = remote /\ monitor'.pc = "returned")]_vars

\* a configuration without a subject: setupMonitor has warned and returned
C30_Witness ==
    /\ monitor.config = "noSubject" /\ monitor.pc = "returned" /\ monitor.warned
    /\ monitor.result = <<>> /\ pc = "start"

AfterDerive ==
    {"gwApi", "gwStage", "integ", "route", "integDelete", "getTriggers", "triggers",
     "policy", "return", "done"}

LaterOps ==
    {"createGateway", "createStage", "updateGateway", "createIntegration",
     "updateIntegration", "deleteIntegration", "createRoute", "updateRoute",
     "deleteRoute", "addTrigger", "deleteTrigger", "putRolePolicy"}

NoRegionOrAccount == RegionOf(loc) = "" \/ AccountOf(loc) = ""

\* C23: when the function step leaves sync without a function identifier giving
\* a region and an account, the run raises where it derives them: it never
\* reaches the gateway, trigger or policy step, issues none of their calls and
\* returns no address.
C23_NoRegionRaises ==
    /\ pc \in AfterDerive => ~NoRegionOrAccount
    /\ (pc = "derive" /\ NoRegionOrAccount) =>
          /\ \A op \in LaterOps : hist.calls[op] = 0
          /\ hist.started \cap {"gateway", "triggers", "policy", "return"} = {}
          /\ PendingOps = {}
          /\ host = <<>>
    /\ (aborted /\ hist.abortPc = "derive") => (pc = "derive" /\ NoRegionOrAccount)

\* nothing is declared and the platform holds no function: the run has created
\* the role and then raised
C23_Witness ==
    /\ aborted /\ hist.abortPc = "derive" /\ pc = "derive"
    /\ loc.fns = <<>> /\ reflection.http = <<>>
    /\ hist.calls["createRole"] > 0

\* the existing functions of the run whose stored architecture or content hash
\* is not the desired one
CodeDiffers ==
    {f \in Range(FnDiff.existing) :
        <<lambdaArchitecture(HttpByName(f.name).config), zip(Code("cur")).sha256>>
            # <<f.cpus, f.hash>>}

\* the existing functions of the run whose stored variables, memory, timeout or
\* runtime are not the desired ones
ConfigDiffers ==
    {f \in Range(FnDiff.existing) :
        LET awsConfig == lambdaConfig(HttpByName(f.name).config, loc.role, environment)
        IN <<awsConfig.Environment.vars, awsConfig.MemorySize, awsConfig.Timeout,
             awsConfig.Runtime>>
               # <<f.env.vars, f.memory, f.timeout, f.runtime>>}

FunctionsUpdated == pc = "derive" /\ ~aborted /\ hist.abortPc = ""

\* C24: when the function step has completed, a code PUT was issued for exactly
\* the existing functions whose desired architecture or content hash differs
\* from the stored one, and a configuration PUT for exactly those whose desired
\* variables, memory, timeout or runtime differ from the stored ones; a function
\* equal in both got no call.
C24_UpdateOnlyWhenDifferent ==
    FunctionsUpdated =>
        /\ hist.calls["putCode"] = Cardinality(CodeDiffers)
        /\ hist.calls["putConfig"] = Cardinality(ConfigDiffers)

\* the same on a platform that lists the Environment block of every function
C24_WithEnvironmentBlock ==
    ~platform.omitEmptyEnv => C24_UpdateOnlyWhenDifferent

C24_Witness ==
    /\ FunctionsUpdated /\ ~platform.omitEmptyEnv
    /\ Cardinality(Range(FnDiff.existing)) = 2
    /\ Cardinality(CodeDiffers) = 1 /\ Cardinality(ConfigDiffers) = 1

\* C21: after syncGateway, from any starting gateway state, every declared function
\* has exactly one integration and exactly one route, the route targets that
\* integration, and every integration and route belongs to a declared function.
C21_OneIntegrationOneRoute ==
    GatewaySynced =>
        /\ \A fn \in Range(Http) :
              /\ Cardinality(IntegrationsOf(fn.name)) = 1
              /\ Cardinality(RoutesOf(fn.name)) = 1
        /\ \A i \in remote.integrations : \E n \in DesiredNames : i \in IntegrationsOf(n)
        /\ \A r \in remote.routes : \E n \in DesiredNames : r \in RoutesOf(n)

TriggersSynced == pc \in {"policy", "return", "done"}

Matching(t, fn) ==
    {i \in DOMAIN t.statements :
        t.statements[i].data = GatewayStatement(fn.name, "cur", platform.region)}

\* C3: after syncTriggers every declared function carries exactly one statement,
\* of the desired shape; one statement was added for each function that had no
\* matching statement, and every statement but one matching one per function was deleted.
C3_TriggersReconciled ==
    TriggersSynced =>
        /\ \A fn \in Range(Http) :
            /\ Cardinality(StatementsOf(fn.name)) = 1
            /\ \A st \in StatementsOf(fn.name) :
                    st.data = GatewayStatement(fn.name, "cur", platform.region)
        /\ LET mine == {t \in Range(loc.triggers) : t.name \in DesiredNames}
               unmatched == {t \in mine : Matching(t, HttpByName(t.name)) = {}}
               all == {<<t.name, i>> : t \in mine, i \in 1..MaxStmts + MaxRuns}
               present == {e \in all :
                    \E t \in mine : t.name = e[1] /\ e[2] \in DOMAIN t.statements}
           IN /\ hist.calls["addTrigger"] = Cardinality(unmatched)
              /\ hist.calls["deleteTrigger"] =
                    Cardinality(present) - Cardinality(mine \ unmatched)

C3_Witness ==
    /\ pc = "done"
    /\ \E t \in Range(loc.triggers) :
        /\ t.name \in DesiredNames
        /\ Len(t.statements) = 2
        /\ Cardinality(Matching(t, HttpByName(t.name))) = 1

StepOrder == <<"role", "functions", "derive", "gateway", "triggers", "policy", "return">>

HomeStep(op) ==
    CASE op = "createRole" -> "role"
      [] op \in {"createLambda", "deleteLambda", "putCode", "putConfig"} -> "functions"
      [] op \in {"addTrigger", "deleteTrigger"} -> "triggers"
      [] op = "putRolePolicy" -> "policy"
      [] OTHER -> "gateway"

\* C4: a step starts, and issues its calls, only when every earlier step has
\* completed; the base URL is returned after the policy step.
C4_StepsInOrder ==
    /\ \A i \in DOMAIN StepOrder :
        (StepOrder[i] \in hist.started \/ \E e \in hist.issued : e[1] = StepOrder[i])
            => \A j \in 1..(i - 1) : StepOrder[j] \in hist.completed
    /\ \A e \in hist.issued : e[1] = HomeStep(e[2])
    /\ host # <<>> => \A i \in DOMAIN StepOrder : StepOrder[i] \in hist.completed

C4_Witness ==
    /\ pc = "done" /\ host # <<>>
    /\ {e[1] : e \in hist.issued} = {"role", "functions", "gateway", "triggers", "policy"}

RouteOps == {"createRoute", "updateRoute", "deleteRoute"}

\* C5: once a deleteIntegration call is issued, every route call of the run has
\* completed and no route targets the integration being deleted.
C5_RoutesBeforeIntegrationDelete ==
    ("deleteIntegration" \in PendingOps \/ hist.calls["deleteIntegration"] > 0) =>
        /\ PendingOps \cap RouteOps = {}
        /\ pc \notin {"gwApi", "gwStage", "integ", "route"}
        /\ \A c \in PendingCalls : c.op = "deleteIntegration" =>
                ~\E r \in remote.routes : r.target = <<"integrations", c.id>>
        /\ "deleteIntegration" \notin hist.rejected

C5_Witness ==
    /\ hist.calls["deleteIntegration"] > 0
    /\ hist.calls["deleteRoute"] > 0
    /\ ~aborted

IntegOps == {"createIntegration", "updateIntegration"}

\* C6: integrations are created or updated only when the API and its stage
\* exist; routes are created or updated only when every integration call has
\* completed and the integration each of them targets exists.
C6_IntegrationsBeforeRoutes ==
    /\ (PendingOps \cap IntegOps # {} \/ Total(IntegOps) > 0) =>
            remote.api # <<>> /\ remote.stage
    /\ (PendingOps \cap {"createRoute", "updateRoute"} # {}
            \/ Total({"createRoute", "updateRoute"}) > 0) =>
        /\ remote.api # <<>> /\ remote.stage
        /\ PendingOps \cap IntegOps = {}
        /\ \A c \in PendingCalls : c.op \in {"createRoute", "updateRoute"} =>
                \E i \in IntegrationsOf(c.fn) : <<i.integrationId>> = Lookup(loc.ids, c.fn)

C6_Witness ==
    /\ hist.calls["createGateway"] = 1
    /\ hist.calls["createIntegration"] = 2
    /\ "createRoute" \in PendingOps

\* C7: once a call has failed the run stays where it failed: no later phase
\* starts, only tasks of the failed batch may still issue calls, and no base
\* URL is returned.
C7_AbortStopsRun ==
    aborted =>
        /\ host = <<>>
        /\ pc = hist.abortPc
        /\ hist.late \subseteq {StepOf(hist.abortPc)}
        /\ \A c \in PendingCalls : HomeStep(c.op) = StepOf(hist.abortPc)

C7_Witness ==
    /\ aborted /\ hist.error # <<>>
    /\ StepOf(pc) = "functions"
    /\ hist.late # {}

\* C8: a run that completes, also one that follows an aborted run, leaves the
\* remote state converged.
C8_RerunConverges == pc = "done" => Converged

\* ------------------------------------------------------- environment resolution

\* A value is a sequence of tokens: literal text and placeholders. The empty
\* sequence is the empty string.
Token(kind, a, b) == [kind |-> kind, a |-> a, b |-> b]

Lit(text) == Token("lit", <<text>>, <<>>)

SameAs(service, key) == Token("SAME_AS", <<service>>, <<key>>)

BaseUrlOf(service) == Token("BASE_URL", <<service>>, <<>>)

Random(bits) == Token("RANDOM", <<bits>>, <<>>)

\* the kinds of the variables array, in its order
variables ==
    <<"ENV", "SERVICE", "PRIVATE_KEY", "ASK", "RANDOM", "SAME_AS", "PUBLIC_KEY", "BASE_URL">>

own == "Symbol()"

source(tok) ==
    [environment |-> IF tok.kind \in {"PRIVATE_KEY", "ASK", "RANDOM"} THEN <<own>>
                     ELSE IF tok.kind \in {"SAME_AS", "PUBLIC_KEY"} THEN tok.a
                     ELSE <<>>,
     baseUrl |-> IF tok.kind = "BASE_URL" THEN tok.a ELSE <<>>]

variableError(message) ==
    [ok |-> FALSE, value |-> <<>>, message |-> message, generated |-> FALSE]

Returns(value) == [ok |-> TRUE, value |-> value, message |-> <<>>, generated |-> FALSE]

\* the value generateKeyPairSync or randomBytes makes
Generates == [ok |-> TRUE, value |-> <<Lit("generated")>>, message |-> <<>>, generated |-> TRUE]

Flatten(ss) ==
    LET RECURSIVE flat(_)
        flat(i) == IF i > Len(ss) THEN <<>> ELSE ss[i] \o flat(i + 1)
    IN flat(1)

\* obj[key] of an object given by its entries: <<>> when undefined
Entry(entries, key) ==
    LET at == {i \in DOMAIN entries : entries[i].key = key}
    IN IF at = {} THEN <<>> ELSE <<entries[CHOOSE i \in at : \A j \in at : j <= i].value>>

\* env[service]?.[key]
Stored(environments, service, key) ==
    LET env == Entry(environments, service)
    IN IF env = <<>> THEN <<>> ELSE Entry(env[1], key)

\* the value function with the generative tokens generating whatever is stored
ValueAlwaysGenerates(prefix, service, tok, key, environments, baseUrls) ==
    LET mine == Stored(environments, service, key)
        theirs == Stored(environments, tok.a[1], tok.b[1])
    IN CASE tok.kind = "ENV" -> Returns(<<Lit(prefix)>>)
         [] tok.kind = "SERVICE" -> Returns(<<Lit(service)>>)
         [] tok.kind \in {"PRIVATE_KEY", "RANDOM"} ->
                Generates
         [] tok.kind = "ASK" ->
                IF mine # <<>> THEN Returns(mine[1])
                ELSE variableError(<<"ASK implementation">>)
         [] tok.kind = "SAME_AS" ->
                IF theirs # <<>> THEN Returns(theirs[1]) ELSE Returns(<<>>)
         [] tok.kind = "PUBLIC_KEY" ->
                IF theirs # <<>> THEN Returns(<<Lit("public key")>> \o theirs[1])
                ELSE variableError(<<"Private key for", tok.a[1], "not found">>)
         [] tok.kind = "BASE_URL" ->
                IF Entry(baseUrls, tok.a[1]) # <<>> THEN Returns(Entry(baseUrls, tok.a[1])[1])
                ELSE variableError(<<"Base URL for", tok.a[1], "not found">>)

\* the value function with $ENV and $SERVICE giving each other's value
ValueEnvServiceSwapped(prefix, service, tok, key, environments, baseUrls) ==
    LET mine == Stored(environments, service, key)
        theirs == Stored(environments, tok.a[1], tok.b[1])
    IN CASE tok.kind = "ENV" -> Returns(<<Lit(service)>>)
         [] tok.kind = "SERVICE" -> Returns(<<Lit(prefix)>>)
         [] tok.kind \in {"PRIVATE_KEY", "RANDOM"} ->
                IF mine # <<>> THEN Returns(mine[1]) ELSE Generates
         [] tok.kind = "ASK" ->
                IF mine # <<>> THEN Returns(mine[1])
                ELSE variableError(<<"ASK implementation">>)
         [] tok.kind = "SAME_AS" ->
                IF theirs # <<>> THEN Returns(theirs[1]) ELSE Returns(<<>>)
         [] tok.kind = "PUBLIC_KEY" ->
                IF theirs # <<>> THEN Returns(<<Lit("public key")>> \o theirs[1])
                ELSE variableError(<<"Private key for", tok.a[1], "not found">>)
         [] tok.kind = "BASE_URL" ->
                IF Entry(baseUrls, tok.a[1]) # <<>> THEN Returns(Entry(baseUrls, tok.a[1])[1])
                ELSE variableError(<<"Base URL for", tok.a[1], "not found">>)

\* the value function of the variable a token belongs to
Value(prefix, service, tok, key, environments, baseUrls) ==
    LET mine == Stored(environments, service, key)
        theirs == Stored(environments, tok.a[1], tok.b[1])
    IN CASE tok.kind = "ENV" -> Returns(<<Lit(prefix)>>)
         [] tok.kind = "SERVICE" -> Returns(<<Lit(service)>>)
         [] tok.kind \in {"PRIVATE_KEY", "RANDOM"} ->
                IF mine # <<>> THEN Returns(mine[1]) ELSE Generates
         [] tok.kind = "ASK" ->
                IF mine # <<>> THEN Returns(mine[1])
                ELSE variableError(<<"ASK implementation">>)
         [] tok.kind = "SAME_AS" ->
                IF theirs # <<>> THEN Returns(theirs[1]) ELSE Returns(<<>>)
         [] tok.kind = "PUBLIC_KEY" ->
                IF theirs # <<>> THEN Returns(<<Lit("public key")>> \o theirs[1])
                ELSE variableError(<<"Private key for", tok.a[1], "not found">>)
         [] tok.kind = "BASE_URL" ->
                IF Entry(baseUrls, tok.a[1]) # <<>> THEN Returns(Entry(baseUrls, tok.a[1])[1])
                ELSE variableError(<<"Base URL for", tok.a[1], "not found">>)

\* the matches of resolveEnv's scan: per key, per variable, per position
Matches(env) ==
    Flatten([i \in DOMAIN env |->
        Flatten([vi \in DOMAIN variables |->
            MapSeq(SelectSeq(env[i].value, LAMBDA t : t.kind = variables[vi]),
                   LAMBDA t : [key |-> env[i].key, v |-> variables[vi], match |-> t])])])

Classify(service, env) ==
    LET ms == Matches(env)
        RECURSIVE scan(_, _)
        scan(i, acc) ==
            IF i > Len(ms) THEN acc
            ELSE LET src == source(ms[i].match)
                     sourceEnvName == IF src.environment = <<own>> THEN <<service>>
                                      ELSE src.environment
                     acc1 == IF sourceEnvName # <<>>
                                /\ sourceEnvName[1] \notin Range(acc.referencedEnvironments)
                             THEN IF src.environment = <<service>>
                                  THEN [acc EXCEPT !.selfReferencing = Append(@, ms[i])]
                                  ELSE [acc EXCEPT !.referencedEnvironments =
                                            Append(@, sourceEnvName[1])]
                             ELSE acc
                     acc2 == IF src.baseUrl # <<>>
                                /\ src.baseUrl[1] \notin Range(acc1.referencedBaseUrls)
                             THEN [acc1 EXCEPT !.referencedBaseUrls = Append(@, src.baseUrl[1])]
                             ELSE acc1
                 IN scan(i + 1, acc2)
    IN scan(1, [referencedEnvironments |-> <<>>, referencedBaseUrls |-> <<>>,
                selfReferencing |-> <<>>])

\* value.replaceAll(v.pattern, ...): every match of variable v that is not
\* skipped is replaced by what the value function returned for it (val); a
\* throw of the value function ends the replacement
Replace(value, v, skip, val) ==
    LET outs == [i \in DOMAIN value |->
                    IF value[i].kind = v /\ value[i] \notin skip THEN val[value[i]]
                    ELSE Returns(<<value[i]>>)]
        bad == {i \in DOMAIN value : ~outs[i].ok}
    IN IF bad = {}
       THEN [Returns(Flatten([i \in DOMAIN value |-> outs[i].value]))
                EXCEPT !.generated = \E i \in DOMAIN value : outs[i].generated]
       ELSE variableError(outs[CHOOSE i \in bad : \A j \in bad : i <= j].message)

OtherService == "x"
Services == {Service, OtherService}

\* Resolver.getEnvironment: the environments of the service's functions merged
getEnvironment(prefix, service) == Flatten(deployed[service].functions)

\* the endpoint of the service's API, undefined (<<>>) when it has none
getApiEndpoint(prefix, service) == deployed[service].api

\* Resolver.getBaseUrl
getBaseUrl(prefix, service) ==
    LET endpoint == getApiEndpoint(prefix, service)
    IN (IF endpoint = <<>> THEN <<>> ELSE endpoint[1]) \o <<Lit("/")>>

fetchEnvironments(prefix, services) ==
    MapSeq(services, LAMBDA sv : [key |-> sv, value |-> getEnvironment(prefix, sv)])

fetchBaseUrls(prefix, services) ==
    MapSeq(services, LAMBDA sv : [key |-> sv, value |-> getBaseUrl(prefix, sv)])

\* the replacements of variable v in every key of env
FirstPass(env, v, refs, environments, baseUrls) ==
    LET outs == [i \in DOMAIN env |->
                    Replace(env[i].value, v,
                        {r.match : r \in {x \in Range(refs) : x.key = env[i].key /\ x.v = v}},
                        [t \in {x \in Range(env[i].value) : x.kind = v} |->
                            Value(Prefix, Service, t, env[i].key, environments, baseUrls)])]
        bad == {i \in DOMAIN env : ~outs[i].ok}
    IN IF bad = {}
       THEN [ok |-> TRUE, message |-> <<>>,
             env |-> [i \in DOMAIN env |-> [key |-> env[i].key, value |-> outs[i].value]],
             generated |-> {env[i].key : i \in {j \in DOMAIN env : outs[j].generated}}]
       ELSE [ok |-> FALSE, env |-> env, generated |-> {},
             message |-> outs[CHOOSE i \in bad : \A j \in bad : i <= j].message]

\* the replacements of the self-referencing matches, one after the other,
\* each against the environment as resolved so far
SelfPass(env0, refs, baseUrls) ==
    LET RECURSIVE pass(_, _)
        pass(j, env) ==
            IF j > Len(refs) THEN [ok |-> TRUE, message |-> <<>>, env |-> env]
            ELSE LET ref == refs[j]
                     out == [i \in DOMAIN env |->
                                IF env[i].key = ref.key
                                THEN Replace(env[i].value, ref.v, {},
                                        [t \in {x \in Range(env[i].value) : x.kind = ref.v} |->
                                            Value(Prefix, Service, t, ref.key,
                                                <<[key |-> Service, value |-> env]>>,
                                                baseUrls)])
                                ELSE Returns(env[i].value)]
                     bad == {i \in DOMAIN env : ~out[i].ok}
                 IN IF bad = {}
                    THEN pass(j + 1, [i \in DOMAIN env |->
                                        [key |-> env[i].key, value |-> out[i].value]])
                    ELSE [ok |-> FALSE, env |-> env,
                          message |-> out[CHOOSE i \in bad : TRUE].message]
    IN pass(1, env0)

\* the values a template gives its keys
TemplateValues ==
    {<<Lit("v")>>, <<Token("ENV", <<>>, <<>>), Lit("-"), Token("SERVICE", <<>>, <<>>)>>,
     <<Random("64")>>, <<Lit("id-"), Random("64")>>,
     <<Token("PRIVATE_KEY", <<"P-256">>, <<>>)>>,
     <<Token("ENV", <<>>, <<>>), Lit("@"), SameAs(OtherService, "KEY"),
       Token("SERVICE", <<>>, <<>>)>>,
     <<SameAs(OtherService, "KEY")>>, <<SameAs(OtherService, "NOPE")>>,
     <<SameAs(Service, "KEY")>>, <<SameAs(Service, "A")>>,
     <<BaseUrlOf(OtherService)>>, <<Lit("see "), BaseUrlOf(OtherService), Lit("docs")>>}

Endpoint(service) == <<<<Lit("https://"), Lit(service), Lit(".execute-api")>>>>

\* what may be deployed of a service: nothing, functions without a gateway,
\* or functions with a gateway
Deployments(service) ==
    {[functions |-> <<>>, api |-> <<>>],
     [functions |-> <<<<[key |-> "KEY", value |-> <<Lit("stored")>>]>>>>, api |-> <<>>],
     [functions |-> <<<<[key |-> "KEY", value |-> <<Lit("stored")>>]>>>>,
      api |-> Endpoint(service)],
     [functions |-> <<<<[key |-> "KEY", value |-> <<Lit("at "), BaseUrlOf("y")>>]>>,
                      <<[key |-> "OTHER", value |-> <<>>]>>>>,
      api |-> Endpoint(service)]}

InitEnv ==
    /\ IdleCmp /\ IdleSync /\ IdleLib
    /\ template \in
         {<<[key |-> "A", value |-> va]>> : va \in TemplateValues}
         \cup {<<[key |-> "A", value |-> va], [key |-> "KEY", value |-> vb]>> :
                    va \in TemplateValues, vb \in TemplateValues}
    /\ deployed \in [Services -> Deployments(Service) \cup Deployments(OtherService)]
    /\ \A sv \in Services : deployed[sv] \in Deployments(sv)
    /\ renv = [pc |-> "scan", env |-> template, i |-> 1,
               referencedEnvironments |-> <<>>, referencedBaseUrls |-> <<>>,
               selfReferencing |-> <<>>, environments |-> <<>>, baseUrls |-> <<>>,
               error |-> <<>>, generated |-> {}]

\* resolveEnv, the scan of the template
ScanEnv ==
    /\ renv.pc = "scan"
    /\ LET found == Classify(Service, renv.env)
       IN renv' = [renv EXCEPT !.pc = "fetch",
                        !.referencedEnvironments = found.referencedEnvironments,
                        !.referencedBaseUrls = found.referencedBaseUrls,
                        !.selfReferencing = found.selfReferencing]
    /\ UNCHANGED <<cmpVars, syncVars, libVars, template, deployed>>

\* resolveEnv, the two fetches
FetchEnv ==
    /\ renv.pc = "fetch"
    /\ renv' = [renv EXCEPT !.pc = "first",
                    !.environments = fetchEnvironments(Prefix, renv.referencedEnvironments),
                    !.baseUrls = fetchBaseUrls(Prefix, renv.referencedBaseUrls)]
    /\ UNCHANGED <<cmpVars, syncVars, libVars, template, deployed>>

\* resolveEnv, the pass of one variable over every key
Substitute ==
    /\ renv.pc = "first"
    /\ LET out == FirstPass(renv.env, variables[renv.i], renv.selfReferencing,
                            renv.environments, renv.baseUrls)
       IN renv' = IF ~out.ok
                  THEN [renv EXCEPT !.pc = "failed", !.error = <<out.message>>]
                  ELSE [renv EXCEPT !.env = out.env,
                            !.generated = @ \cup out.generated,
                            !.i = IF renv.i < Len(variables) THEN @ + 1 ELSE @,
                            !.pc = IF renv.i < Len(variables) THEN "first" ELSE "self"]
    /\ UNCHANGED <<cmpVars, syncVars, libVars, template, deployed>>

\* resolveEnv, the pass over the self-referencing matches, and the return
SubstituteSelf ==
    /\ renv.pc = "self"
    /\ LET out == SelfPass(renv.env, renv.selfReferencing, renv.baseUrls)
       IN renv' = IF ~out.ok
                  THEN [renv EXCEPT !.pc = "failed", !.error = <<out.message>>]
                  ELSE [renv EXCEPT !.pc = "resolved", !.env = out.env]
    /\ UNCHANGED <<cmpVars, syncVars, libVars, template, deployed>>

NextEnv == ScanEnv \/ FetchEnv \/ Substitute \/ SubstituteSelf

SpecEnv == InitEnv /\ [][NextEnv]_vars

\* ------------------------------------------------------- claims about resolveEnv

Resolved == renv.pc = "resolved"

DeployedValue(service, key) == Entry(getEnvironment(Prefix, service), key)

\* C9 (as claimed): a $SAME_AS(service, key) of another service never resolves
\* when that service's deployed environment lacks the key (resolution ends in
\* the error instead), and a key that is the token alone resolves to exactly
\* the stored value.
C9_SameAsResolvesOrFails ==
    \A e \in Range(template) : \A tok \in Range(e.value) :
        (tok.kind = "SAME_AS" /\ tok.a[1] # Service) =>
            LET stored == DeployedValue(tok.a[1], tok.b[1])
            IN /\ stored = <<>> => ~Resolved
               /\ (stored # <<>> /\ Resolved /\ e.value = <<tok>>) =>
                        Entry(renv.env, e.key) = stored

\* C10 (as claimed): a $BASE_URL(service) never resolves when the service has
\* no deployed gateway, and a key that is the token alone resolves to the
\* deployed endpoint followed by a slash.
C10_BaseUrlResolvesOrFails ==
    \A e \in Range(template) : \A tok \in Range(e.value) :
        tok.kind = "BASE_URL" =>
            LET endpoint == getApiEndpoint(Prefix, tok.a[1])
            IN /\ endpoint = <<>> => ~Resolved
               /\ (endpoint # <<>> /\ Resolved /\ e.value = <<tok>>) =>
                        Entry(renv.env, e.key) = <<endpoint[1] \o <<Lit("/")>>>>

Generative(value) == \E t \in Range(value) : t.kind \in {"RANDOM", "PRIVATE_KEY"}

\* C11: a value is generated for key K only when K holds a generative token
\* and the service's own deployed environment stores nothing for K; with a
\* stored value the token resolves to exactly that value, and without one a
\* completed resolution has generated a value for K.
C11_GenerativeReuse ==
    \A e \in Range(template) :
        LET stored == DeployedValue(Service, e.key)
        IN /\ e.key \in renv.generated => (Generative(e.value) /\ stored = <<>>)
           /\ (Resolved /\ Generative(e.value) /\ stored # <<>> /\ Len(e.value) = 1) =>
                    Entry(renv.env, e.key) = stored
           /\ (Resolved /\ Generative(e.value) /\ stored = <<>>) =>
                    e.key \in renv.generated

C11_Witness ==
    /\ Resolved
    /\ renv.generated = {"A"}
    /\ DeployedValue(Service, "KEY") = <<<<Lit("stored")>>>>
    /\ Entry(template, "KEY") = <<<<Token("PRIVATE_KEY", <<"P-256">>, <<>>)>>>>
    /\ Entry(renv.env, "KEY") = <<<<Lit("stored")>>>>

SelfToken(tok) == tok.kind = "SAME_AS" /\ tok.a[1] = Service

\* C12 (as claimed): a key that is a $SAME_AS token on the service itself
\* resolves to the value the named key has in the same resolution, whatever
\* other tokens the template holds.
C12_SelfReferenceResolves ==
    Resolved =>
        \A e \in Range(template) :
            (/\ Len(e.value) = 1
             /\ SelfToken(e.value[1])
             /\ e.value[1].b[1] # e.key
             /\ Entry(template, e.value[1].b[1]) # <<>>) =>
                Entry(renv.env, e.key) = Entry(renv.env, e.value[1].b[1])

\* a value with its $ENV and $SERVICE tokens replaced
Named(value) ==
    [j \in DOMAIN value |->
        IF value[j].kind = "ENV" THEN Lit(Prefix)
        ELSE IF value[j].kind = "SERVICE" THEN Lit(Service)
        ELSE value[j]]

\* C13: once the passes of $ENV and $SERVICE are over, every key holds its
\* template value with each $ENV replaced by the prefix and each $SERVICE by
\* the service name; a resolved environment holds neither token, a value of
\* literals, $ENV and $SERVICE resolves to exactly that replacement, and a
\* leading $ENV resolves to the prefix whatever follows it.
C13_EnvAndServiceNamed ==
    /\ (renv.pc = "first" /\ renv.i = 3) =>
            \A k \in DOMAIN template : renv.env[k].value = Named(template[k].value)
    /\ Resolved =>
            \A k \in DOMAIN template :
                /\ \A t \in Range(renv.env[k].value) : t.kind \notin {"ENV", "SERVICE"}
                /\ (\A t \in Range(template[k].value) : t.kind \in {"lit", "ENV", "SERVICE"})
                        => renv.env[k].value = Named(template[k].value)
                /\ template[k].value[1].kind = "ENV" => renv.env[k].value[1] = Lit(Prefix)

C13_Witness ==
    /\ Resolved
    /\ \E k \in DOMAIN template :
        /\ \E t \in Range(template[k].value) : t.kind = "ENV"
        /\ \E t \in Range(template[k].value) : t.kind = "SAME_AS"
        /\ renv.env[k].value = <<Lit(Prefix), Lit("@"), Lit("stored"), Lit(Service)>>

\* ------------------------------------------------------- route translation

MaxPath == 4

PathPieces == {"/", "*", "things"}

\* the path patterns of the documented examples: "/things/*/sub/*",
\* "things/*/sub/*", "/things/*/" and "things/*/"
ExamplePatterns ==
    {<<"/", "things", "/", "*", "/", "sub", "/", "*">>,
     <<"things", "/", "*", "/", "sub", "/", "*">>,
     <<"/", "things", "/", "*", "/">>,
     <<"things", "/", "*", "/">>}

InitRoute ==
    /\ decl \in [method : {"GET", "POST"},
                 pathPattern : SeqsUpTo(PathPieces, MaxPath) \cup ExamplePatterns]
    /\ translated = <<>>
    /\ IdleCmp /\ IdlePure /\ IdleSync /\ IdleEnv /\ monitor = IdleMonitor /\ IdleLoops

\* asRoute for the route key and makeStatementData for the permission path
Translate ==
    /\ translated = <<>>
    /\ translated' =
          <<[routeKey |-> asRoute(NoId, decl).routeKey,
             path |-> trimTrailingSlash(replaceStars(decl.pathPattern, 0)),
             arn |-> makeStatementData("eu-central-1", Account, ApiId,
                                       <<"fn">>, decl).Condition]>>
    /\ UNCHANGED <<cmpVars, pureVars, syncVars, envVars, decl, monitor, loopVars>>

NextRoute == Translate

SpecRoute == InitRoute /\ [][NextRoute]_vars

\* C14: the k-th star of a path pattern, counted from the left, becomes {pk} and one
\* trailing slash is removed; method GET with pattern /things/*/sub/* gives the route
\* key "GET /things/{p1}/sub/{p2}", and pattern /things/*/ gives the path /things/{p1}.
C14_RouteKeyOfSlashPattern ==
    translated # <<>> =>
        /\ (decl.method = "GET"
              /\ decl.pathPattern = <<"/", "things", "/", "*", "/", "sub", "/", "*">>
            => translated[1].routeKey =
                 <<"GET", " ", "/", "things", "/", "{p1}", "/", "sub", "/", "{p2}">>)
        /\ (decl.pathPattern = <<"/", "things", "/", "*", "/">>
            => translated[1].path = <<"/", "things", "/", "{p1}">>)

\* the positions of the stars of a pattern, left to right
StarsOf(path) == {i \in DOMAIN path : path[i] = "*"}

\* C14 (amended): the route key is the method, a space, a slash and the translated
\* pattern, where the translated pattern has {pk} in place of the k-th star from the
\* left, every other piece unchanged, and one trailing slash removed; GET with
\* pattern things/*/sub/* gives "GET /things/{p1}/sub/{p2}" and pattern /things/*/
\* gives the path /things/{p1}.
C14_RouteTranslation ==
    translated # <<>> =>
        LET pat == decl.pathPattern
            cut == IF pat # <<>> /\ pat[Len(pat)] = "/" THEN Len(pat) - 1 ELSE Len(pat)
            out == translated[1]
        IN  /\ Len(out.path) = cut
            /\ \A i \in 1..cut :
                  out.path[i] = IF pat[i] = "*"
                                THEN Param(Cardinality({j \in StarsOf(pat) : j <= i}))
                                ELSE pat[i]
            /\ out.routeKey = <<decl.method, " ", "/">> \o out.path
            /\ (decl.method = "GET"
                  /\ pat = <<"things", "/", "*", "/", "sub", "/", "*">>
                => out.routeKey =
                     <<"GET", " ", "/", "things", "/", "{p1}", "/", "sub", "/", "{p2}">>)
            /\ (pat = <<"/", "things", "/", "*", "/">>
                => out.path = <<"/", "things", "/", "{p1}">>)

C14_Witness ==
    /\ translated # <<>>
    /\ decl.method = "GET"
    /\ decl.pathPattern = <<"things", "/", "*", "/", "sub", "/", "*">>
    /\ translated[1].routeKey =
         <<"GET", " ", "/", "things", "/", "{p1}", "/", "sub", "/", "{p2}">>

\* ------------------------------------------------------- retryConflict

\* time is counted in ticks
TicksPerSecond == 8

DeadlineSeconds == 30

\* the pause before a retry: between 125 and 375 milliseconds
Jitter == (TicksPerSecond \div 8) .. ((3 * TicksPerSecond) \div 8)

\* how long one invocation of the operation may take: no time, one tick, ten
\* seconds, or longer than the whole deadline
CallTicks == {0, 1, 10 * TicksPerSecond, (DeadlineSeconds + 1) * TicksPerSecond}

\* the HTTP statuses an invocation may fail with
FailureStatuses == {404, 409, 500}

\* a retry loop that treats a server error like a conflict
isConflictOrServerError(e) == e \in {409, 500}

isConflict(e) == e = 409

InitConflict ==
    /\ IdleCmp /\ IdlePure /\ IdleSync /\ IdleEnv /\ IdleRoute /\ monitor = IdleMonitor
    /\ throttle = None
    /\ conflict = [pc |-> "call", now |-> 0, deadline |-> DeadlineSeconds * TicksPerSecond,
                   began |-> <<>>, failure |-> <<>>, late |-> 0, error |-> <<>>]

\* the invocation that begins now
Invoked ==
    [conflict EXCEPT !.began = <<conflict.now>>,
                     !.late = IF conflict.now > conflict.deadline THEN @ + 1 ELSE @]

conflictUnchanged ==
    UNCHANGED <<cmpVars, pureVars, syncVars, envVars, routeVars, monitor, throttle>>

\* the operation succeeds: its value is returned
ConflictReturns ==
    /\ conflict.pc = "call"
    /\ \E d \in CallTicks :
          conflict' = [Invoked EXCEPT !.pc = "returned", !.now = @ + d]
    /\ conflictUnchanged

\* the operation fails: the error is thrown on unless it is a conflict caught
\* no later than the deadline
ConflictCatches ==
    /\ conflict.pc = "call"
    /\ \E d \in CallTicks, e \in FailureStatuses :
          LET at == conflict.now + d
              caught == [Invoked EXCEPT !.now = at, !.failure = <<[status |-> e, at |-> at]>>]
          IN conflict' = IF ~isConflict(e) \/ at > conflict.deadline
                         THEN [caught EXCEPT !.pc = "thrown", !.error = <<e>>]
                         ELSE [caught EXCEPT !.pc = "sleep"]
    /\ conflictUnchanged

ConflictSleeps ==
    /\ conflict.pc = "sleep"
    /\ \E j \in Jitter : conflict' = [conflict EXCEPT !.pc = "call", !.now = @ + j]
    /\ conflictUnchanged

NextConflict == ConflictReturns \/ ConflictCatches \/ ConflictSleeps

SpecConflict == InitConflict /\ [][NextConflict]_vars

\* C19: retryConflict invokes the operation again only after a failure with status
\* 409 caught no later than 30 seconds after its start; a success returns at once;
\* a failure with another status, or a 409 caught after the deadline, is thrown on
\* at once; so at most one invocation begins after the deadline.
C19_RetryConflict ==
    /\ conflict.deadline = 30 * TicksPerSecond
    /\ (conflict.pc \in {"sleep", "call"} /\ conflict.failure # <<>>) =>
          /\ conflict.failure[1].status = 409
          /\ conflict.failure[1].at <= conflict.deadline
    /\ conflict.pc = "returned" => conflict.error = <<>>
    /\ (conflict.failure # <<>>
          /\ (conflict.failure[1].status # 409
               \/ conflict.failure[1].at > conflict.deadline)) =>
          /\ conflict.pc = "thrown"
          /\ conflict.error = <<conflict.failure[1].status>>
          /\ conflict.now = conflict.failure[1].at
    /\ conflict.pc = "thrown" =>
          conflict.failure[1].status # 409 \/ conflict.failure[1].at > conflict.deadline
    /\ conflict.late <= 1

\* a conflict caught after the deadline, in an invocation that began after a retry
C19_Witness ==
    /\ conflict.pc = "thrown" /\ conflict.error = <<409>>
    /\ conflict.failure[1].at > conflict.deadline
    /\ conflict.began[1] > 0

\* ------------------------------------------------------- retry, fetchFunctions

\* createLambda retries a response with status 400 up to 25 times
CreateMaxRetries == 25

RetryDelayMs == 500

\* the pages of the function list and the cap of the request counter
MaxPages == 2
MaxRequests == 6

\* the `when` argument createLambda gives retry; <<>> stands for undefined
when(status) == IF status = 400 THEN <<CreateMaxRetries>> ELSE <<>>

InitThrottle ==
    /\ IdleCmp /\ IdlePure /\ IdleSync /\ IdleEnv /\ IdleRoute /\ monitor = IdleMonitor
    /\ conflict = None
    /\ \E path \in {"creation", "listing"}, pages \in 1..MaxPages :
          /\ (path = "creation" => pages = 1)
          /\ throttle = [path |-> path, pc |-> "request", attempts |-> 0, requests |-> 0,
                         response |-> <<>>, waited |-> 0, pages |-> pages, marker |-> 1,
                         cachedFunctions |-> {}, error |-> <<>>]

throttleUnchanged ==
    UNCHANGED <<cmpVars, pureVars, syncVars, envVars, routeVars, monitor, conflict>>

\* retry: the request is sent and answered; the response is returned when `when`
\* gives no limit for it or the limit is used up, else the loop pauses
RetryRequest ==
    /\ throttle.path = "creation" /\ throttle.pc = "request"
    /\ \E status \in {201, 400, 500} :
          LET maxRetries == when(status)
              answered == [throttle EXCEPT !.requests = @ + 1, !.response = <<status>>]
          IN throttle' = IF maxRetries = <<>> \/ maxRetries[1] <= throttle.attempts
                         THEN [answered EXCEPT !.pc = "settle"]
                         ELSE [answered EXCEPT !.pc = "sleep"]
    /\ throttleUnchanged

RetrySleep ==
    /\ throttle.path = "creation" /\ throttle.pc = "sleep"
    /\ throttle' = [throttle EXCEPT !.pc = "request", !.attempts = @ + 1,
                                    !.waited = @ + RetryDelayMs]
    /\ throttleUnchanged

\* createLambda reads the response retry returned: a failing one is thrown
CreateSettles ==
    /\ throttle.path = "creation" /\ throttle.pc = "settle"
    /\ throttle' = IF throttle.response = <<201>>
                   THEN [throttle EXCEPT !.pc = "returned"]
                   ELSE [throttle EXCEPT !.pc = "thrown", !.error = throttle.response]
    /\ throttleUnchanged

\* fetchFunctions: one page is requested; status 429 pauses and asks again, any
\* other failure is thrown, the last page ends the loop. The request counter
\* stops at MaxRequests.
ListRequest ==
    /\ throttle.path = "listing" /\ throttle.pc = "request"
    /\ \E status \in {200, 429, 500} :
          LET answered == [throttle EXCEPT
                              !.requests = IF @ < MaxRequests THEN @ + 1 ELSE @,
                              !.response = <<status>>]
          IN throttle' =
               CASE status = 200 ->
                      [answered EXCEPT
                          !.cachedFunctions = @ \cup {throttle.marker},
                          !.pc = IF throttle.marker = throttle.pages THEN "returned" ELSE @,
                          !.marker = IF throttle.marker = throttle.pages THEN @ ELSE @ + 1]
                 [] status = 429 -> [answered EXCEPT !.pc = "sleep"]
                 [] OTHER -> [answered EXCEPT !.pc = "thrown", !.error = <<status>>]
    /\ throttleUnchanged

ListSleep ==
    /\ throttle.path = "listing" /\ throttle.pc = "sleep"
    /\ throttle' = [throttle EXCEPT !.pc = "request"]
    /\ throttleUnchanged

NextThrottle == RetryRequest \/ RetrySleep \/ CreateSettles \/ ListRequest \/ ListSleep

\* every loop that can take a step does take one
SpecThrottle == InitThrottle /\ [][NextThrottle]_vars /\ WF_vars(NextThrottle)

\* the creation path: at most 26 requests, 500 ms apart, and a failing last
\* response is thrown
CreationBounded ==
    throttle.path = "creation" =>
        /\ throttle.requests <= CreateMaxRetries + 1
        /\ throttle.waited = RetryDelayMs * throttle.attempts
        /\ throttle.pc = "thrown" =>
              throttle.error = throttle.response /\ throttle.response # <<201>>
        /\ (throttle.pc = "thrown" /\ throttle.response = <<400>>) =>
              throttle.requests = CreateMaxRetries + 1

\* C20: a throttled request is retried a bounded number of times and is fatal
\* after that: a creation issues at most 26 requests and throws the last failing
\* response, and a listing ends, with an error when the platform keeps answering 429.
C20_ThrottleBounded ==
    /\ []CreationBounded
    /\ [](throttle.path = "listing" => <>(throttle.pc \in {"returned", "thrown"}))

\* ------------------------------------------------------- assignPolicy
\* One call of assignPolicy of the roles client, with a role that already holds
\* some inline policy.

MaxExtra == 2

OtherPrefix == "q"
OtherAccount == "222"

\* the statements a project may declare in its role configuration
DeclaredStatements ==
    {[Effect |-> "Allow", Resource |-> <<"sqs", "$REGION", "$ACCOUNT", "queue">>,
      Action |-> "sqs"],
     [Effect |-> "Allow", Resource |-> <<"s3", "bucket">>, Action |-> "s3"],
     [Effect |-> "Deny", Resource |-> <<"sns", "$REGION", "$REGION", "$ACCOUNT">>,
      Action |-> "sns"]}

\* the inline policies the role may hold before the call: none, one an earlier
\* deployment wrote, one written by hand
RemotePolicies ==
    {<<>>,
     <<PolicyDocument(Prefix, Service, "eu-central-1", Account, policyStatements)>>,
     <<<<[Effect |-> "Allow", Resource |-> <<"kms", "key">>, Action |-> "kms"]>>>>}

InitPolicy ==
    /\ IdleCmp /\ IdleSync /\ IdleEnv /\ IdleRoute /\ monitor = IdleMonitor /\ IdleLoops
    /\ \E prefix \in {Prefix, OtherPrefix}, service \in Services, region \in Regions,
          account \in {Account, OtherAccount},
          additionalStatements \in SeqsUpTo(DeclaredStatements, MaxExtra),
          policy \in RemotePolicies :
          call = [fn |-> "assignPolicy", prefix |-> prefix, service |-> service,
                  region |-> region, account |-> account,
                  additionalStatements |-> additionalStatements,
                  rolePolicy |-> policy]
    /\ result = <<>>

\* assignPolicy: one PutRolePolicy request carrying the document; the role then
\* holds that document
assignPolicy ==
    /\ call.fn = "assignPolicy" /\ result = <<>>
    /\ LET document == PolicyDocument(call.prefix, call.service, call.region,
                                      call.account, call.additionalStatements)
       IN result' = <<[requests |-> <<[Action |-> "PutRolePolicy",
                                     RoleName |-> <<call.prefix, call.service, "role">>,
                                     PolicyName |-> <<call.prefix, call.service, "policy">>,
                                     PolicyDocument |-> document]>>,
                      rolePolicy |-> <<document>>]>>
    /\ UNCHANGED <<cmpVars, syncVars, envVars, routeVars, monitor, loopVars, call>>

NextPolicy == assignPolicy

SpecPolicy == InitPolicy /\ [][NextPolicy]_vars

\* the resource of a declared statement with its placeholders filled in
Substituted(resource, region, account) ==
    [i \in DOMAIN resource |->
        CASE resource[i] = "$REGION" -> region
          [] resource[i] = "$ACCOUNT" -> account
          [] OTHER -> resource[i]]

\* C22: the policy document assignPolicy writes is the three baseline statements,
\* built from prefix, service, region and account, followed by the declared
\* statements in their order with every $REGION and $ACCOUNT of the resource
\* replaced; it is sent in one PutRolePolicy request, no other request is made,
\* and the policy the role held before has no part in it.
C22_PolicyDocument ==
    (call.fn = "assignPolicy" /\ result # <<>>) =>
        LET sent == result[1].requests[1].PolicyDocument
            extra == call.additionalStatements
        IN  /\ Len(result[1].requests) = 1
            /\ result[1].requests[1].Action = "PutRolePolicy"
            /\ result[1].rolePolicy = <<sent>>
            /\ Len(sent) = 3 + Len(extra)
            /\ sent[1].Resource = <<"logs", call.region, call.account, "*">>
            /\ sent[2].Resource = <<"logs", call.region, call.account,
                                    call.prefix, call.service>>
            /\ sent[3].Resource = <<"dynamodb", call.region, call.account,
                                    call.prefix, call.service>>
            /\ \A i \in 1..3 : sent[i].Effect = "Allow"
            /\ \A i \in DOMAIN extra :
                  /\ sent[3 + i].Effect = extra[i].Effect
                  /\ sent[3 + i].Action = extra[i].Action
                  /\ sent[3 + i].Resource =
                        Substituted(extra[i].Resource, call.region, call.account)
                  /\ "$REGION" \notin Range(sent[3 + i].Resource)
                  /\ "$ACCOUNT" \notin Range(sent[3 + i].Resource)

\* a role holding a hand-written policy was assigned a document with two
\* declared statements, one of them with placeholders
C22_Witness ==
    /\ call.fn = "assignPolicy" /\ result # <<>>
    /\ Len(call.additionalStatements) = 2
    /\ call.rolePolicy # <<>> /\ call.rolePolicy # result[1].rolePolicy
    /\ \E i \in 1..2 : "$REGION" \in Range(call.additionalStatements[i].Resource)
    /\ call.region = "us-east-1"

\* ------------------------------------------------------- integration names
\* One integration is built for a declared function by asIntegration and then
\* read back the way syncIntegrations reads a current integration.

\* function names of one or more dash-separated segments
DeclaredNames == SeqsUpTo({"a", "b", "get"}, MaxLen) \ {<<>>}

InitName ==
    /\ IdleCmp /\ IdleSync /\ IdleEnv /\ IdleRoute /\ monitor = IdleMonitor /\ IdleLoops
    /\ \E prefix \in {Prefix, OtherPrefix}, service \in Services, region \in Regions,
          account \in {Account, OtherAccount}, name \in DeclaredNames :
          call = [fn |-> "asIntegration", prefix |-> prefix, service |-> service,
                  region |-> region, account |-> account, name |-> name]
    /\ result = <<>>

\* the integration of the function is built, and its name is parsed from the URI
ReadIntegrationBack ==
    /\ call.fn = "asIntegration" /\ result = <<>>
    /\ LET integration == asIntegration(call.region, call.account, call.prefix,
                                        call.service, HttpFn(call.name, "cur"))
       IN result' = <<[integration |-> integration,
                       name |-> IntegrationName(integration.integrationUri)]>>
    /\ UNCHANGED <<cmpVars, syncVars, envVars, routeVars, monitor, loopVars, call>>

NextName == ReadIntegrationBack

SpecName == InitName /\ [][NextName]_vars

\* C25: the name parsed from the URI of the integration asIntegration builds for
\* a function is the name of that function, for every prefix, service and name.
C25_NameRoundTrip ==
    (call.fn = "asIntegration" /\ result # <<>>) => result[1].name = call.name

\* the same for the names without a dash
C25_DashFreeRoundTrip ==
    (call.fn = "asIntegration" /\ result # <<>> /\ Len(call.name) = 1) =>
        result[1].name = call.name

C25_Witness ==
    /\ call.fn = "asIntegration" /\ result # <<>> /\ Len(call.name) = 1
    /\ call.prefix = OtherPrefix /\ call.service = OtherService

\* ------------------------------------------------------- existence probes
\* One call of getRole, getFunction or getTriggers against a platform that
\* answers each request with some status.

MaxProbed == 2

Statuses == {200, 403, 404, 429, 500}

\* the fetch helpers reject with the status of a response that is not OK
ok(status) == status \in 200..299

thrownHasStatus(e, status) == e = <<status>>

\* a probe that reads a refused request as an absent resource as well
isNotFoundOrForbidden(e) == thrownHasStatus(e, 404) \/ thrownHasStatus(e, 403)

isNotFound(e) == thrownHasStatus(e, 404)

Returned(value) == [outcome |-> "returned", value |-> value, error |-> <<>>]
Rejected(e) == [outcome |-> "thrown", value |-> <<>>, error |-> e]

\* the functions a probe may be asked about, each with the status it is answered
ProbedFunctions ==
    {s \in SeqsUpTo({NameA, NameB, NameC} \X Statuses, MaxProbed) :
        \A i, j \in DOMAIN s : i # j => s[i][1] # s[j][1]}

InitProbe ==
    /\ IdleCmp /\ IdleSync /\ IdleEnv /\ IdleRoute /\ monitor = IdleMonitor /\ IdleLoops
    /\ \/ \E prefix \in {Prefix, OtherPrefix}, status \in Statuses :
            call = [fn |-> "getRole", prefix |-> prefix, service |-> Service,
                    status |-> status]
       \/ \E n \in {NameA, NameB, NameC}, status \in Statuses :
            call = [fn |-> "getFunction", name |-> n, status |-> status]
       \/ \E probed \in ProbedFunctions :
            call = [fn |-> "getTriggers",
                    functions |-> MapSeq(probed, LAMBDA p :
                        [id |-> FunctionArn("eu-central-1", Account, p[1]), name |-> p[1]]),
                    statuses |-> MapSeq(probed, LAMBDA p : p[2])]
    /\ result = <<>>

probeUnchanged == UNCHANGED <<cmpVars, syncVars, envVars, routeVars, monitor, loopVars, call>>

\* getRole: status 404 is undefined, any other failure is thrown
getRole ==
    /\ call.fn = "getRole" /\ result = <<>>
    /\ result' =
         <<IF call.status = 404 THEN Returned(<<>>)
           ELSE IF ~ok(call.status) THEN Rejected(<<call.status>>)
           ELSE Returned(<<[Arn |-> <<"role", call.prefix, call.service>>]>>)>>
    /\ probeUnchanged

\* getFunction: the request rejects unless OK; a rejection with status 404 is
\* caught and undefined is returned
getFunction ==
    /\ call.fn = "getFunction" /\ result = <<>>
    /\ LET e == <<call.status>>
       IN result' =
            <<IF ok(call.status)
              THEN Returned(<<[id |-> FunctionArn("eu-central-1", Account, call.name),
                               name |-> call.name]>>)
              ELSE IF thrownHasStatus(e, 404) THEN Returned(<<>>)
              ELSE Rejected(e)>>
    /\ probeUnchanged

\* what getTriggers makes of the answer for one function: the function with its
\* statements, the function alone after a 404, a rejection otherwise
TriggerPolicy(fn, status) ==
    IF ok(status)
    THEN Returned(<<[id |-> fn.id, name |-> fn.name,
                     statements |-> <<<<[Sid |-> fn.name]>>>>]>>)
    ELSE IF isNotFound(<<status>>)
    THEN Returned(<<[id |-> fn.id, name |-> fn.name, statements |-> <<>>]>>)
    ELSE Rejected(<<status>>)

\* getTriggers: all functions are probed at once; the call rejects with the
\* error of one of the rejected probes
probeTriggers ==
    /\ call.fn = "getTriggers" /\ result = <<>>
    /\ LET policies == [i \in DOMAIN call.functions |->
                           TriggerPolicy(call.functions[i], call.statuses[i])]
           rejected == {i \in DOMAIN policies : policies[i].outcome = "thrown"}
       IN IF rejected = {}
          THEN result' = <<Returned(<<MapSeq(policies, LAMBDA p : p.value[1])>>)>>
          ELSE \E i \in rejected : result' = <<policies[i]>>
    /\ probeUnchanged

NextProbe == getRole \/ getFunction \/ probeTriggers

SpecProbe == InitProbe /\ [][NextProbe]_vars

\* C26: the probes read status 404 as absence and nothing else: getRole and
\* getFunction return undefined exactly on 404 and raise on every other failure
\* status; getTriggers returns every function, with no statements exactly for
\* those answered 404, and raises when some function is answered another
\* failure status.
C26_ProbesAbsentOn404 ==
    result # <<>> =>
        /\ call.fn \in {"getRole", "getFunction"} =>
              /\ call.status = 404 => result[1] = Returned(<<>>)
              /\ call.status = 200 =>
                    result[1].outcome = "returned" /\ result[1].value # <<>>
              /\ call.status \notin {200, 404} => result[1] = Rejected(<<call.status>>)
        /\ call.fn = "getTriggers" =>
              IF Range(call.statuses) \subseteq {200, 404}
              THEN /\ result[1].outcome = "returned"
                   /\ Len(result[1].value[1]) = Len(call.functions)
                   /\ \A i \in DOMAIN call.functions :
                        /\ result[1].value[1][i].name = call.functions[i].name
                        /\ result[1].value[1][i].id = call.functions[i].id
                        /\ (result[1].value[1][i].statements = <<>>)
                              <=> (call.statuses[i] = 404)
              ELSE /\ result[1].outcome = "thrown"
                   /\ \E s \in Range(call.statuses) \ {200, 404} : result[1].error = <<s>>

\* getTriggers asked about two functions, one of them without a policy
C26_Witness ==
    /\ call.fn = "getTriggers" /\ result # <<>>
    /\ Len(call.functions) = 2 /\ call.statuses = <<404, 200>>
    /\ result[1].outcome = "returned"

\* ------------------------------------------------------- listing loops
\* One call of fetchFunctions (with an empty cache), listTopics or
\* listSubscriptionsByTopic against a platform that holds a listing cut into
\* pages and hands out a token with every page but the last.

MaxItems == 3
MaxListedPages == 3
MaxThrottled == 1

\* the ways the platform may cut a listing of n items into pages, empty pages
\* included
Paged(n) ==
    LET page == {SubSeq([i \in 1..n |-> i], a, b) : a \in 1..(n + 1), b \in 0..n}
    IN {pages \in SeqsUpTo(page, MaxListedPages) :
            pages # <<>> /\ Flatten(pages) = [i \in 1..n |-> i]}

\* the token the platform hands out with page k - 1 and takes for page k
Tokens == <<<<"first">>, <<"t", "/", "2">>, <<"t", "=", "3">>, <<"t", "&", "4">>>>

\* encodeURIComponent and the form encoding of URLSearchParams escape the
\* reserved characters; the platform reads the query back
encodeURIComponent(token) ==
    Flatten([i \in DOMAIN token |->
        CASE token[i] = "/" -> <<"%", "2F">>
          [] token[i] = "=" -> <<"%", "3D">>
          [] token[i] = "&" -> <<"%", "26">>
          [] OTHER -> <<token[i]>>])

RECURSIVE decodeQuery(_)
decodeQuery(text) ==
    IF text = <<>> THEN <<>>
    ELSE IF text[1] = "%"
    THEN <<CASE text[2] = "2F" -> "/" [] text[2] = "3D" -> "=" [] OTHER -> "&">>
         \o decodeQuery(SubSeq(text, 3, Len(text)))
    ELSE <<text[1]>> \o decodeQuery(Tail(text))

\* the page the platform answers a request with: the first page for a request
\* without a token, the page the token stands for otherwise
PageOf(query) ==
    IF query = <<>> THEN 1
    ELSE CHOOSE k \in DOMAIN Tokens : Tokens[k] = decodeQuery(query)

InitListing ==
    /\ IdleCmp /\ IdleSync /\ IdleEnv /\ IdleRoute /\ monitor = IdleMonitor /\ IdleLoops
    /\ \E fn \in {"fetchFunctions", "listTopics", "listSubscriptionsByTopic"},
          n \in 0..MaxItems :
          \E pages \in Paged(n) :
             call = [fn |-> fn, pages |-> pages, pc |-> "request", marker |-> <<>>,
                     items |-> <<>>, log |-> <<>>, throttled |-> 0]
    /\ result = <<>>

listingUnchanged == UNCHANGED <<cmpVars, syncVars, envVars, routeVars, monitor, loopVars>>

\* a loop that asks for the first page again and again
NextMarkerDropped(marker, token) == marker

\* the marker of the next request
NextMarker(marker, token) == encodeURIComponent(token)

\* one turn of a loop: the page for the marker is requested, its items are
\* appended, and the loop ends with a page that carries no token; fetchFunctions
\* asks again for the same page after a 429; any other failure is thrown
ListPage ==
    /\ call.fn \in {"fetchFunctions", "listTopics", "listSubscriptionsByTopic"}
    /\ call.pc = "request"
    /\ \E status \in {200, 429, 500} :
        LET k == PageOf(call.marker)
            last == k = Len(call.pages)
            logged == [call EXCEPT !.log = Append(@, [marker |-> call.marker,
                                                      status |-> status, page |-> k])]
        IN  /\ status = 429 => call.throttled < MaxThrottled
            /\ call' =
                 CASE status = 200 ->
                        [logged EXCEPT
                            !.items = @ \o
                                (IF call.fn = "fetchFunctions"
                                 THEN SelectSeq(call.pages[k],
                                                LAMBDA f : f \notin Range(call.items))
                                 ELSE call.pages[k]),
                            !.pc = IF last THEN "returned" ELSE @,
                            !.marker = IF last THEN @ ELSE NextMarker(@, Tokens[k + 1])]
                   [] status = 429 /\ call.fn = "fetchFunctions" ->
                        [logged EXCEPT !.throttled = @ + 1]
                   [] OTHER -> [logged EXCEPT !.pc = "thrown"]
            /\ result' = IF status = 200 /\ last THEN <<call'.items>> ELSE result
    /\ listingUnchanged

NextListing == ListPage

SpecListing == InitListing /\ [][NextListing]_vars

Listings == {"fetchFunctions", "listTopics", "listSubscriptionsByTopic"}

\* C27: a listing loop asks for the first page without a token and for every
\* further page with the token of the page before (again with the same token
\* after a throttled request), stops with the page that carries no token, and
\* returns the items of all pages, each exactly once and in their order.
C27_ListingLoops ==
    call.fn \in Listings =>
        LET log == call.log
            answered == SelectSeq(log, LAMBDA r : r.status = 200)
        IN  /\ \A i \in DOMAIN log :
                  /\ i = 1 => log[i].marker = <<>> /\ log[i].page = 1
                  /\ (i > 1 /\ log[i - 1].status = 200) =>
                        /\ log[i].page = log[i - 1].page + 1
                        /\ decodeQuery(log[i].marker) = Tokens[log[i].page]
                  /\ (i > 1 /\ log[i - 1].status # 200) =>
                        log[i].marker = log[i - 1].marker /\ log[i - 1].status = 429
                  /\ log[i].page <= Len(call.pages)
            /\ (call.pc = "returned") <=>
                  (answered # <<>> /\ answered[Len(answered)].page = Len(call.pages))
            /\ call.pc = "returned" =>
                  /\ result = <<Flatten(call.pages)>>
                  /\ Len(answered) = Len(call.pages)
                  /\ \A x \in Range(result[1]) :
                        Cardinality({i \in DOMAIN result[1] : result[1][i] = x}) = 1
            /\ call.pc # "returned" => result = <<>>

\* three items listed on three pages, with a throttled request on the way
C27_Witness ==
    /\ call.fn = "fetchFunctions" /\ call.pc = "returned"
    /\ Len(call.pages) = 3 /\ Len(result[1]) = 3
    /\ call.throttled = 1 /\ Len(call.log) = 4 /\ call.log[2].status = 429

\* ------------------------------------------------------- gateway CORS
\* One call of syncGatewayApi for a gateway that carries some CORS block.

MaxSites == 2

SiteLists == SeqsUpTo({"*", "https://web", "https://app"}, MaxSites)

\* the blocks a gateway may carry: one an earlier deployment sent, or such a
\* block changed by hand
CurrentBlocks ==
    {corsSettings(sites) : sites \in SiteLists}
    \cup {[corsSettings(sites) EXCEPT !.allowCredentials = ~@] : sites \in SiteLists}
    \cup {[corsSettings(sites) EXCEPT !.maxAge = 0] : sites \in SiteLists}

InitCors ==
    /\ IdleCmp /\ IdleSync /\ IdleEnv /\ IdleRoute /\ monitor = IdleMonitor /\ IdleLoops
    /\ \E corsSites \in SiteLists, block \in CurrentBlocks :
          call = [fn |-> "syncGatewayApi", corsSites |-> corsSites,
                  gateway |-> [apiId |-> ApiId, corsConfiguration |-> block]]
    /\ result = <<>>

\* syncGatewayApi: nothing when the block is the one on the gateway, one PATCH
\* carrying the block otherwise
syncGatewayApi ==
    /\ call.fn = "syncGatewayApi" /\ result = <<>>
    /\ LET corsConfiguration == corsSettings(call.corsSites)
       IN result' =
            <<[requests |->
                 IF corsConfiguration = call.gateway.corsConfiguration THEN <<>>
                 ELSE <<[method |-> "PATCH", apiId |-> call.gateway.apiId,
                         corsConfiguration |-> corsConfiguration]>>]>>
    /\ UNCHANGED <<cmpVars, syncVars, envVars, routeVars, monitor, loopVars, call>>

NextCors == syncGatewayApi

SpecCors == InitCors /\ [][NextCors]_vars

\* C29: the gateway is patched exactly when the block made from the site list
\* is not the block on the gateway; the block sent has the site list as its
\* allowed origins and refuses credentials exactly when the site list is the
\* single wildcard.
C29_CorsBlock ==
    (call.fn = "syncGatewayApi" /\ result # <<>>) =>
        LET onGateway == call.gateway.corsConfiguration
            requests == result[1].requests
            same == /\ onGateway.allowOrigins = call.corsSites
                    /\ onGateway.allowCredentials = (call.corsSites # <<"*">>)
                    /\ onGateway.maxAge = 600
        IN  /\ Len(requests) = IF same THEN 0 ELSE 1
            /\ \A i \in DOMAIN requests :
                  /\ requests[i].method = "PATCH"
                  /\ requests[i].corsConfiguration.allowOrigins = call.corsSites
                  /\ (requests[i].corsConfiguration.allowCredentials = FALSE)
                        <=> (call.corsSites = <<"*">>)

\* a gateway open to every origin is patched for a list that names the
\* wildcard next to a site
C29_Witness ==
    /\ call.fn = "syncGatewayApi" /\ result # <<>>
    /\ call.corsSites = <<"*", "https://web">>
    /\ call.gateway.corsConfiguration = corsSettings(<<"*">>)
    /\ Len(result[1].requests) = 1

\* ------------------------------------------------------- ensureTopic
\* One call of ensureTopic against a notification service that holds some
\* topics and subscriptions.

TopicName == <<Prefix, Service, "errors">>
OtherTopicName == <<Prefix, OtherService, "errors">>

SnsTopic(name) == <<"arn", "aws", "sns", "eu-central-1", Account, name>>

Endpoints == {FunctionArn("eu-central-1", Account, ListenerName),
              FunctionArn("eu-central-1", Account, NameB)}

makeSubscription(protocol, endpoint, topicArn) ==
    [Protocol |-> protocol, Endpoint |-> endpoint, TopicArn |-> topicArn]

\* a subscription as the service lists it
Subscription(id, protocol, endpoint, topicArn) ==
    [Protocol |-> protocol, Endpoint |-> endpoint, TopicArn |-> topicArn,
     SubscriptionArn |-> <<topicArn, id>>]

WithoutArn(s) == [Protocol |-> s.Protocol, Endpoint |-> s.Endpoint, TopicArn |-> s.TopicArn]

\* the subscriptions the named topic may carry before the call
StartSubscriptions ==
    SUBSET {Subscription(i, "lambda", e, SnsTopic(TopicName)) :
                i \in 1..2, e \in Endpoints}

InitTopic ==
    /\ IdleCmp /\ IdleSync /\ IdleEnv /\ IdleRoute /\ monitor = IdleMonitor /\ IdleLoops
    /\ \E endpoint \in Endpoints, there \in BOOLEAN, subs \in StartSubscriptions :
          /\ \A s, t \in subs :
                (s.Endpoint = t.Endpoint \/ s.SubscriptionArn = t.SubscriptionArn) => s = t
          /\ ~there => subs = {}
          /\ call = [fn |-> "ensureTopic", pc |-> "listTopics",
                     topicName |-> TopicName, protocol |-> "lambda",
                     endpoint |-> endpoint,
                     topics |-> {SnsTopic(OtherTopicName)}
                                \cup (IF there THEN {SnsTopic(TopicName)} ELSE {}),
                     subscriptions |->
                        subs \cup {Subscription(1, "lambda", endpoint,
                                                SnsTopic(OtherTopicName))},
                     found |-> <<>>, listed |-> <<>>, todo |-> {}, log |-> <<>>]
    /\ result = <<>>

topicUnchanged == UNCHANGED <<cmpVars, syncVars, envVars, routeVars, monitor, loopVars>>

\* a request of the call is refused: the call rejects
TopicFails ==
    /\ call.fn = "ensureTopic"
    /\ call.pc \in {"listTopics", "listSubscriptions", "createTopic", "subscribe"}
          \/ (call.pc = "unsubscribe" /\ call.todo # {})
    /\ call' = [call EXCEPT !.pc = "thrown"]
    /\ result' = <<[outcome |-> "thrown", value |-> <<>>]>>
    /\ topicUnchanged

\* listTopics, and the search for the topic whose identifier ends with the name
TopicList ==
    /\ call.fn = "ensureTopic" /\ call.pc = "listTopics"
    /\ LET existing == {t \in call.topics : t[6] = call.topicName}
       IN call' = IF existing = {}
                  THEN [call EXCEPT !.pc = "createTopic"]
                  ELSE [call EXCEPT !.pc = "listSubscriptions",
                                    !.found = <<CHOOSE t \in existing : TRUE>>]
    /\ UNCHANGED result /\ topicUnchanged

\* a topic that takes the desired subscription among others for a match
OnlyDesiredAmong(subscriptions, desired) ==
    desired \in Range(MapSeq(subscriptions, WithoutArn))

\* the subscriptions are the desired one and nothing else
OnlyDesired(subscriptions, desired) == MapSeq(subscriptions, WithoutArn) = <<desired>>

\* listSubscriptionsByTopic and the choice of what to do with the topic
TopicSubscriptions ==
    /\ call.fn = "ensureTopic" /\ call.pc = "listSubscriptions"
    /\ LET subscriptions ==
              SetToSeq({s \in call.subscriptions : s.TopicArn = call.found[1]})
           desired == makeSubscription(call.protocol, call.endpoint, call.found[1])
       IN IF subscriptions = <<>>
          THEN call' = [call EXCEPT !.pc = "subscribe", !.listed = subscriptions]
                 /\ UNCHANGED result
          ELSE IF ~OnlyDesired(subscriptions, desired)
          THEN call' = [call EXCEPT !.pc = "unsubscribe", !.listed = subscriptions,
                                    !.todo = {s.SubscriptionArn : s \in Range(subscriptions)}]
                 /\ UNCHANGED result
          ELSE call' = [call EXCEPT !.pc = "returned", !.listed = subscriptions]
                 /\ result' = <<[outcome |-> "returned", value |-> <<call.found[1]>>]>>
    /\ topicUnchanged

\* one of the unsubscribe requests sent together is answered
TopicUnsubscribe ==
    /\ call.fn = "ensureTopic" /\ call.pc = "unsubscribe"
    /\ \E arn \in call.todo :
          call' = [call EXCEPT
                      !.todo = @ \ {arn},
                      !.subscriptions = {s \in @ : s.SubscriptionArn # arn},
                      !.log = Append(@, [op |-> "unsubscribe", arn |-> arn])]
    /\ UNCHANGED result /\ topicUnchanged

\* all of them have been answered
TopicUnsubscribed ==
    /\ call.fn = "ensureTopic" /\ call.pc = "unsubscribe" /\ call.todo = {}
    /\ call' = [call EXCEPT !.pc = "subscribe"]
    /\ UNCHANGED result /\ topicUnchanged

TopicCreate ==
    /\ call.fn = "ensureTopic" /\ call.pc = "createTopic"
    /\ call' = [call EXCEPT !.pc = "subscribe",
                            !.topics = @ \cup {SnsTopic(call.topicName)},
                            !.found = <<SnsTopic(call.topicName)>>,
                            !.log = Append(@, [op |-> "createTopic",
                                               arn |-> SnsTopic(call.topicName)])]
    /\ UNCHANGED result /\ topicUnchanged

\* subscribeTopic, after which the identifier of the topic is returned; the
\* service keeps one subscription per topic and endpoint
TopicSubscribe ==
    /\ call.fn = "ensureTopic" /\ call.pc = "subscribe"
    /\ LET topicArn == call.found[1]
           made == Subscription(3, call.protocol, call.endpoint, topicArn)
           known == \E s \in call.subscriptions : WithoutArn(s) = WithoutArn(made)
       IN call' = [call EXCEPT
                      !.pc = "returned",
                      !.subscriptions = IF known THEN @ ELSE @ \cup {made},
                      !.log = Append(@, [op |-> "subscribe", arn |-> topicArn])]
    /\ result' = <<[outcome |-> "returned", value |-> <<call.found[1]>>]>>
    /\ topicUnchanged

NextTopic ==
    \/ TopicList \/ TopicSubscriptions \/ TopicUnsubscribe \/ TopicUnsubscribed
    \/ TopicCreate \/ TopicSubscribe \/ TopicFails

SpecTopic == InitTopic /\ [][NextTopic]_vars

LogOps(log) == MapSeq(log, LAMBDA r : r.op)

\* C31: when ensureTopic has returned, the named topic exists and carries
\* exactly one subscription, the one of the listener; a missing topic was
\* created and subscribed, a topic without subscriptions was subscribed, a topic
\* carrying just that subscription got no call, and in every other case each
\* subscription found was removed before the one subscribe call; the
\* subscriptions of other topics are as they were.
C31_OneSubscription ==
    (call.fn = "ensureTopic" /\ call.pc = "returned") =>
        LET topicArn == SnsTopic(call.topicName)
            mine == {s \in call.subscriptions : s.TopicArn = topicArn}
            desired == makeSubscription("lambda", call.endpoint, topicArn)
            ops == LogOps(call.log)
        IN  /\ result = <<[outcome |-> "returned", value |-> <<topicArn>>]>>
            /\ topicArn \in call.topics
            /\ {WithoutArn(s) : s \in mine} = {desired} /\ Cardinality(mine) = 1
            /\ {s \in call.subscriptions : s.TopicArn # topicArn}
                  = {Subscription(1, "lambda", call.endpoint, SnsTopic(OtherTopicName))}
            /\ CASE call.found = <<>> \/ "createTopic" \in Range(ops) ->
                       ops = <<"createTopic", "subscribe">>
                 [] call.listed = <<>> -> ops = <<"subscribe">>
                 [] Len(call.listed) = 1 /\ WithoutArn(call.listed[1]) = desired ->
                       ops = <<>>
                 [] OTHER ->
                       /\ Len(ops) = Len(call.listed) + 1
                       /\ ops[Len(ops)] = "subscribe"
                       /\ {call.log[i].arn : i \in 1..Len(call.listed)}
                             = {s.SubscriptionArn : s \in Range(call.listed)}
                       /\ \A i \in 1..Len(call.listed) : ops[i] = "unsubscribe"

\* a topic that carried the subscription of the listener and one more
C31_Witness ==
    /\ call.fn = "ensureTopic" /\ call.pc = "returned"
    /\ Len(call.listed) = 2
    /\ \E i \in 1..2 : call.listed[i].Endpoint = call.endpoint
    /\ Len(call.log) = 3

\* ------------------------------------------------------- ensureTrigger and setupAlarm, one call

MaxStatements == 2

\* the identifiers randomUUID may draw for a new statement
FreshSids == {"u4", "u5"}

\* what the platform stores for the request addTrigger sends: the statement of
\* the function named in the request path, allowing the principal to invoke it
\* when called from the source
StoredStatement(functionArn, request) ==
    [Sid |-> request.StatementId,
     Action |-> request.Action,
     Effect |-> "Allow",
     Principal |-> [Service |-> request.Principal],
     Resource |-> functionArn,
     Condition |-> request.SourceArn]

\* the request body of addTrigger
AddTriggerRequest(id, statement) ==
    [StatementId |-> id,
     Action |-> statement.Action,
     Principal |-> statement.Principal.Service,
     SourceArn |-> statement.Condition]

\* const { Sid: _, ...current } = existing
WithoutSid(existing) == [k \in DOMAIN existing \ {"Sid"} |-> existing[k]]

SameAction(left, right) == left.Action = right.Action

\* isDeepStrictEqual of two statements
SameStatement(left, right) == left = right

ListenerArn == FunctionArn("eu-central-1", Account, ListenerName)

\* the statements a listener may carry before the call: the one of the topic,
\* the one of the topic of an earlier subject, the one of the topic once more
\* under another identifier
FoundStatements ==
    LET request(id, topicName) ==
            AddTriggerRequest(id, snsStatementData(ListenerArn, SnsTopic(topicName)))
    IN  {StoredStatement(ListenerArn, request("u1", TopicName)),
         StoredStatement(ListenerArn, request("u2", OtherTopicName)),
         StoredStatement(ListenerArn, request("u3", TopicName))}

\* the policy of the listener before the call: none, or a list of statements
StartPolicies ==
    {<<>>} \cup
    {<<sts>> : sts \in {s \in UNION {[1..n -> FoundStatements] : n \in 0..MaxStatements} :
                            \A i, j \in DOMAIN s : s[i].Sid = s[j].Sid => i = j}}

NeverTooMany(items) == FALSE

\* more than one object where at most one is expected
TooMany(items) == Len(items) > 1

StartTrigger ==
    {[fn |-> "ensureTrigger", pc |-> "getTriggers",
      func |-> [id |-> ListenerArn, name |-> ListenerName],
      statement |-> snsStatementData(ListenerArn, SnsTopic(TopicName)),
      policy |-> policy, listed |-> <<>>, log |-> <<>>] : policy \in StartPolicies}

alertUnchanged == UNCHANGED <<cmpVars, syncVars, envVars, routeVars, monitor, loopVars>>

\* getTriggers for the one function, a missing policy read as no statements,
\* and the decision taken on what was read
TriggerGet ==
    /\ call.fn = "ensureTrigger" /\ call.pc = "getTriggers"
    /\ LET statements == IF call.policy = <<>> THEN <<>> ELSE call.policy[1]
           weird == TooMany(statements)
           next == IF Len(statements) = 0 THEN "addTrigger"
                   ELSE IF SameStatement(WithoutSid(statements[1]), call.statement)
                        THEN "returned" ELSE "deleteTrigger"
       IN  /\ call' = [call EXCEPT !.listed = statements,
                                   !.pc = IF weird THEN "thrown" ELSE next]
           /\ result' = IF weird THEN <<[outcome |-> "thrown", value |-> <<"Weird">>]>>
                        ELSE IF next = "returned"
                             THEN <<[outcome |-> "returned", value |-> <<>>]>>
                             ELSE <<>>
    /\ alertUnchanged

\* deleteTrigger of the statement found
TriggerDelete ==
    /\ call.fn = "ensureTrigger" /\ call.pc = "deleteTrigger"
    /\ LET sid == call.listed[1].Sid
       IN call' = [call EXCEPT
                      !.policy = <<SelectSeq(call.policy[1], LAMBDA st : st.Sid # sid)>>,
                      !.log = Append(@, [op |-> "deleteTrigger", sid |-> sid]),
                      !.pc = "addTrigger"]
    /\ UNCHANGED result /\ alertUnchanged

\* addTrigger under a new identifier
TriggerAdd ==
    /\ call.fn = "ensureTrigger" /\ call.pc = "addTrigger"
    /\ \E id \in FreshSids :
        LET stored == StoredStatement(FunctionArn("eu-central-1", Account, call.func.name),
                                      AddTriggerRequest(id, call.statement))
            before == IF call.policy = <<>> THEN <<>> ELSE call.policy[1]
        IN call' = [call EXCEPT !.policy = <<Append(before, stored)>>,
                                !.log = Append(@, [op |-> "addTrigger", sid |-> id]),
                                !.pc = "returned"]
    /\ result' = <<[outcome |-> "returned", value |-> <<>>]>>
    /\ alertUnchanged

\* a request of the call is refused: the call rejects
TriggerFails ==
    /\ call.fn = "ensureTrigger"
    /\ call.pc \in {"getTriggers", "deleteTrigger", "addTrigger"}
    /\ call' = [call EXCEPT !.pc = "thrown"]
    /\ result' = <<[outcome |-> "thrown", value |-> <<"refused">>]>>
    /\ alertUnchanged

ensureTrigger == TriggerGet \/ TriggerDelete \/ TriggerAdd \/ TriggerFails

\* ---- the alarm client

MaxMembers == 2

\* spreadArray: one key per element, the prefix followed by its position
RECURSIVE spreadFrom(_, _, _)
spreadFrom(arr, prefix, i) ==
    IF i > Len(arr) THEN <<>>
    ELSE ((prefix \o ToString(i)) :> arr[i]) @@ spreadFrom(arr, prefix, i + 1)

spreadArray(arr, prefix) == spreadFrom(arr, prefix, 1)

makeAlarm(alarmActions, okActions) ==
    [ActionsEnabled |-> TRUE,
     ComparisonOperator |-> "GreaterThanThreshold",
     DatapointsToAlarm |-> 1,
     EvaluationPeriods |-> 1,
     Period |-> 300,
     Statistic |-> "Sum",
     Threshold |-> 0,
     TreatMissingData |-> "notBreaching"]
    @@ spreadArray(alarmActions, "AlarmActions.member.")
    @@ spreadArray(okActions, "OKActions.member.")

DefaultsOverConfig(defaults, alarm) ==
    IF alarm = <<>> THEN defaults ELSE defaults @@ alarm[1]

\* { ...makeAlarm([endpoint], [endpoint]), ...config.alarm }
MergedConfig(defaults, alarm) ==
    IF alarm = <<>> THEN defaults ELSE alarm[1] @@ defaults

makeFilter(filterName, filterPattern, metricName, metricNamespace) ==
    [filterName |-> filterName,
     filterPattern |-> filterPattern,
     metricTransformations |-> <<[metricName |-> metricName,
                                  metricNamespace |-> metricNamespace,
                                  metricValue |-> "1"]>>]

\* the parameters putAlarm sends
PutAlarmParams(metricName, metricNameSpace, alarm) ==
    alarm @@ [Action |-> "PutMetricAlarm", Version |-> "2010-08-01",
              MetricName |-> metricName, Namespace |-> metricNameSpace,
              AlarmName |-> metricName \o <<"alarm">>]

\* the list the platform reads from the numbered member parameters
Members(params, prefix) ==
    LET n == Cardinality({i \in 1..MaxMembers : (prefix \o ToString(i)) \in DOMAIN params})
    IN  [i \in 1..n |-> params[prefix \o ToString(i)]]

\* the alarm the platform keeps for the parameters of a put
StoredAlarm(params) ==
    [AlarmName |-> params.AlarmName,
     MetricName |-> params.MetricName,
     Namespace |-> params.Namespace,
     ActionsEnabled |-> params.ActionsEnabled,
     AlarmActions |-> Members(params, "AlarmActions.member."),
     OKActions |-> Members(params, "OKActions.member."),
     ComparisonOperator |-> params.ComparisonOperator,
     DatapointsToAlarm |-> params.DatapointsToAlarm,
     EvaluationPeriods |-> params.EvaluationPeriods,
     Period |-> params.Period,
     Statistic |-> params.Statistic,
     Threshold |-> params.Threshold,
     TreatMissingData |-> params.TreatMissingData]

\* the fields listAlarmsByMetric keeps of an alarm of the platform
ListedAlarm(m) ==
    [ActionsEnabled |-> m.ActionsEnabled,
     AlarmActions |-> m.AlarmActions,
     DatapointsToAlarm |-> m.DatapointsToAlarm,
     OKActions |-> m.OKActions,
     ComparisonOperator |-> m.ComparisonOperator,
     EvaluationPeriods |-> m.EvaluationPeriods,
     Period |-> m.Period,
     Statistic |-> m.Statistic,
     Threshold |-> m.Threshold,
     TreatMissingData |-> m.TreatMissingData]

listAlarmsByMetric(alarms, metricName, metricNameSpace) ==
    MapSeq(SelectSeq(alarms, LAMBDA m : m.MetricName = metricName
                                        /\ m.Namespace = metricNameSpace),
           ListedAlarm)

\* a put replaces the alarm, or the filter, of the same name and adds it otherwise
PutNamed(items, item, key) ==
    IF \E i \in DOMAIN items : items[i][key] = item[key]
    THEN [i \in DOMAIN items |-> IF items[i][key] = item[key] THEN item ELSE items[i]]
    ELSE Append(items, item)

AlarmMetric == FunctionName(NameA) \o <<"errors">>
AlarmNamespace == <<Prefix, Service, "errors">>
AlarmLogGroup == <<"/aws/lambda/">> \o FunctionName(NameA)

\* the alarm configurations of a caller: none, a threshold of its own, the
\* threshold of the defaults
AlarmConfigs == {<<>>, <<[Threshold |-> 5]>>, <<[Threshold |-> 0, Period |-> 60]>>}

\* the platform before the call: the alarms of the metric (as an earlier call
\* with one of the configurations put them, or made by hand under another
\* name), the log group and its filters
StartAlarms ==
    LET put(alarm) == StoredAlarm(PutAlarmParams(AlarmMetric, AlarmNamespace,
                          MergedConfig(makeAlarm(<<SnsTopic(TopicName)>>,
                                                 <<SnsTopic(TopicName)>>), alarm)))
        ours == {put(alarm) : alarm \in AlarmConfigs}
        byHand == [put(<<>>) EXCEPT !.AlarmName = <<"manual">>]
        other == [put(<<>>) EXCEPT !.MetricName = FunctionName(NameB) \o <<"errors">>,
                                   !.AlarmName = FunctionName(NameB) \o <<"errors", "alarm">>]
    IN  {<<other>>} \cup {<<other, a>> : a \in ours \cup {byHand}}
        \cup {<<a, other, byHand>> : a \in ours}

StartFilters ==
    LET ours == {makeFilter(name, pattern, AlarmMetric, AlarmNamespace) :
                   name \in {"errors", "Errors"}, pattern \in {"ERROR", "FATAL"}}
        other == makeFilter("warnings", "WARN", FunctionName(NameA) \o <<"warnings">>,
                            AlarmNamespace)
    IN  {<<>>, <<other>>} \cup {<<other, f>> : f \in ours}

StartAlarm ==
    {[fn |-> "setupAlarm", pc |-> "listAlarms",
      logGroupName |-> AlarmLogGroup, metricName |-> AlarmMetric,
      metricNameSpace |-> AlarmNamespace,
      config |-> [alarm |-> alarm, filterPattern |-> pattern, subject |-> subject],
      endpoint |-> SnsTopic(TopicName),
      alarms |-> alarms, logGroup |-> group[1], filters |-> group[2],
      start |-> [alarms |-> alarms, logGroup |-> group[1], filters |-> group[2]],
      listed |-> <<>>, metricFilter |-> <<>>, log |-> <<>>] :
        alarm \in AlarmConfigs, pattern \in {<<>>, <<"FATAL">>},
        subject \in {<<>>, <<"errors">>},
        alarms \in StartAlarms,
        group \in {<<FALSE, <<>>>>} \cup {<<TRUE, fs>> : fs \in StartFilters}}

AlarmDone(outcome, value) == <<[outcome |-> outcome, value |-> value]>>

\* listAlarmsByMetric and the decision on what it lists: one alarm is left as it
\* is or put again, more than one is an error, none leads to the filter
AlarmList ==
    /\ call.fn = "setupAlarm" /\ call.pc = "listAlarms"
    /\ LET listed == listAlarmsByMetric(call.alarms, call.metricName, call.metricNameSpace)
           mergedConfig == MergedConfig(makeAlarm(<<call.endpoint>>, <<call.endpoint>>),
                                        call.config.alarm)
           next == IF Len(listed) = 1
                   THEN IF call.config.alarm # <<>> /\ listed[1] # mergedConfig
                        THEN "putExisting" ELSE "returned"
                   ELSE IF TooMany(listed) THEN "thrown" ELSE "listMetrics"
       IN  /\ call' = [call EXCEPT !.listed = listed, !.pc = next]
           /\ result' = CASE next = "returned" -> AlarmDone("returned", <<>>)
                          [] next = "thrown" -> AlarmDone("thrown", <<"Weird">>)
                          [] OTHER -> <<>>
    /\ alertUnchanged

\* putAlarm of the merged configuration, over the one alarm found or after the
\* filter
AlarmPut ==
    /\ call.fn = "setupAlarm" /\ call.pc \in {"putExisting", "putAlarm"}
    /\ LET alarm == MergedConfig(makeAlarm(<<call.endpoint>>, <<call.endpoint>>),
                                 call.config.alarm)
           stored == StoredAlarm(PutAlarmParams(call.metricName, call.metricNameSpace, alarm))
       IN call' = [call EXCEPT !.alarms = PutNamed(@, stored, "AlarmName"),
                               !.log = Append(@, [op |-> "putAlarm", answer |-> "ok"]),
                               !.pc = "returned"]
    /\ result' = AlarmDone("returned", <<>>)
    /\ alertUnchanged

\* listMetrics, a missing log group read as no filter, and the search for the
\* filter of the metric
AlarmListMetrics ==
    /\ call.fn = "setupAlarm" /\ call.pc = "listMetrics"
    /\ LET metrics == IF call.logGroup THEN call.filters ELSE <<>>
           matching == SelectSeq(metrics, LAMBDA m :
                          \E i \in DOMAIN m.metricTransformations :
                             /\ m.metricTransformations[i].metricName = call.metricName
                             /\ m.metricTransformations[i].metricNamespace
                                   = call.metricNameSpace)
           differs == /\ call.config.filterPattern # <<>>
                      /\ matching[1].filterPattern # call.config.filterPattern[1]
       IN call' = IF matching = <<>> THEN [call EXCEPT !.pc = "putMetricFilter"]
                  ELSE [call EXCEPT !.metricFilter = <<matching[1]>>,
                                    !.pc = IF differs THEN "putPattern" ELSE "putAlarm"]
    /\ UNCHANGED result /\ alertUnchanged

\* putMetricFilter of the filter made from the configuration; a missing log
\* group is answered ResourceNotFoundException and created before the put is
\* repeated
AlarmPutFilter ==
    /\ call.fn = "setupAlarm" /\ call.pc = "putMetricFilter"
    /\ LET filter == makeFilter(IF call.config.subject = <<>> THEN "Errors"
                                ELSE call.config.subject[1],
                                IF call.config.filterPattern = <<>> THEN "ERROR"
                                ELSE call.config.filterPattern[1],
                                call.metricName, call.metricNameSpace)
       IN call' = IF ~call.logGroup
                  THEN [call EXCEPT
                           !.log = Append(@, [op |-> "putMetricFilter",
                                              answer |-> "ResourceNotFoundException"]),
                           !.pc = "createLogGroup"]
                  ELSE [call EXCEPT
                           !.filters = PutNamed(@, filter, "filterName"),
                           !.metricFilter = <<filter>>,
                           !.log = Append(@, [op |-> "putMetricFilter", answer |-> "ok"]),
                           !.pc = "putAlarm"]
    /\ UNCHANGED result /\ alertUnchanged

AlarmCreateLogGroup ==
    /\ call.fn = "setupAlarm" /\ call.pc = "createLogGroup"
    /\ call' = [call EXCEPT !.logGroup = TRUE,
                            !.log = Append(@, [op |-> "createLogGroup", answer |-> "ok"]),
                            !.pc = "putMetricFilter"]
    /\ UNCHANGED result /\ alertUnchanged

\* the filter found has another pattern than the configured one: it is put anew
AlarmPutPattern ==
    /\ call.fn = "setupAlarm" /\ call.pc = "putPattern"
    /\ LET filter == makeFilter(IF call.config.subject = <<>> THEN "errors"
                                ELSE call.config.subject[1],
                                call.config.filterPattern[1],
                                call.metricName, call.metricNameSpace)
       IN call' = [call EXCEPT
                      !.filters = PutNamed(@, filter, "filterName"),
                      !.log = Append(@, [op |-> "putMetricFilter", answer |-> "ok"]),
                      !.pc = "putAlarm"]
    /\ UNCHANGED result /\ alertUnchanged

\* a request of the call is refused for another reason: the call rejects
AlarmFails ==
    /\ call.fn = "setupAlarm"
    /\ call.pc \in {"listAlarms", "putExisting", "listMetrics", "putMetricFilter",
                    "createLogGroup", "putPattern", "putAlarm"}
    /\ call' = [call EXCEPT !.pc = "thrown"]
    /\ result' = AlarmDone("thrown", <<"refused">>)
    /\ alertUnchanged

setupAlarm ==
    \/ AlarmList \/ AlarmPut \/ AlarmListMetrics \/ AlarmPutFilter
    \/ AlarmCreateLogGroup \/ AlarmPutPattern \/ AlarmFails

InitAlerting ==
    /\ IdleCmp /\ IdleSync /\ IdleEnv /\ IdleRoute /\ monitor = IdleMonitor /\ IdleLoops
    /\ call \in StartTrigger \/ call \in StartAlarm
    /\ result = <<>>

NextAlerting == ensureTrigger \/ setupAlarm

SpecAlerting == InitAlerting /\ [][NextAlerting]_vars

\* C32: when ensureTrigger has returned, the listener carries exactly one
\* statement and it is the desired one; no statement found gave one add, a
\* statement equal to the desired one gave no call, and a different one was
\* deleted and then one add followed.
C32_OneStatement ==
    (call.fn = "ensureTrigger" /\ call.pc = "returned") =>
        LET ops == LogOps(call.log)
            found == call.listed
        IN  /\ call.policy # <<>> /\ Len(call.policy[1]) = 1
            /\ WithoutSid(call.policy[1][1]) = call.statement
            /\ CASE found = <<>> -> ops = <<"addTrigger">>
                 [] WithoutSid(found[1]) = call.statement -> ops = <<>>
                 [] OTHER -> /\ ops = <<"deleteTrigger", "addTrigger">>
                             /\ call.log[1].sid = found[1].Sid

\* a listener that carried the statement of another topic
C32_Witness ==
    /\ call.fn = "ensureTrigger" /\ call.pc = "returned"
    /\ Len(call.listed) = 1 /\ call.listed[1].Condition = SnsTopic(OtherTopicName)
    /\ Len(call.log) = 2

\* the filters of a log group that count the metric of the call
FiltersOfMetric(filters) ==
    SelectSeq(filters, LAMBDA f :
        \E i \in DOMAIN f.metricTransformations :
           /\ f.metricTransformations[i].metricName = call.metricName
           /\ f.metricTransformations[i].metricNamespace = call.metricNameSpace)

\* the alarms of the platform on the metric of the call
AlarmsOfMetric(alarms) ==
    SelectSeq(alarms, LAMBDA m : m.MetricName = call.metricName
                                 /\ m.Namespace = call.metricNameSpace)

\* the default values of the fields of an alarm
AlarmDefaults ==
    [ActionsEnabled |-> TRUE, ComparisonOperator |-> "GreaterThanThreshold",
     DatapointsToAlarm |-> 1, EvaluationPeriods |-> 1, Period |-> 300,
     Statistic |-> "Sum", Threshold |-> 0, TreatMissingData |-> "notBreaching"]

C34_MoreThanOneRaises ==
    /\ (call.fn = "ensureTrigger" /\ Len(call.listed) > 1) =>
          /\ call.pc = "thrown" /\ result = <<[outcome |-> "thrown", value |-> <<"Weird">>]>>
          /\ call.log = <<>> /\ call.policy = <<call.listed>>
    /\ (call.fn = "setupAlarm" /\ Len(call.listed) > 1) =>
          /\ call.pc = "thrown" /\ result = <<[outcome |-> "thrown", value |-> <<"Weird">>]>>
          /\ call.log = <<>>
          /\ call.alarms = call.start.alarms /\ call.filters = call.start.filters
          /\ call.logGroup = call.start.logGroup

\* a listener with two statements, or a metric with two alarms, was read
C34_Witness ==
    /\ call.fn \in {"ensureTrigger", "setupAlarm"}
    /\ Len(call.listed) = 2 /\ call.pc = "thrown"

\* what listAlarmsByMetric shows of the alarm the platform keeps once the
\* desired alarm, the defaults merged with the caller's configuration, is put
DesiredListed ==
    ListedAlarm(StoredAlarm(PutAlarmParams(call.metricName, call.metricNameSpace,
        MergedConfig(makeAlarm(<<call.endpoint>>, <<call.endpoint>>),
                     call.config.alarm))))

\* C39: setupAlarm on a metric whose one alarm equals the desired alarm puts
\* nothing, and a put over the one alarm found is made only when that alarm
\* differs from the desired one.
C39_NoPutWhenEqual ==
    (call.fn = "setupAlarm" /\ Len(call.listed) = 1 /\ call.listed[1] = DesiredListed) =>
        call.pc # "putExisting" /\ "putAlarm" \notin Range(LogOps(call.log))

\* without an alarm configuration of the caller the one alarm found is left
\* alone, whatever it holds
C39_NoPutWithoutConfig ==
    (call.fn = "setupAlarm" /\ Len(call.listed) = 1 /\ call.config.alarm = <<>>) =>
        call.pc # "putExisting" /\ call.log = <<>>

\* the alarm an earlier call put for the same configuration is put again
C39_Witness ==
    /\ call.fn = "setupAlarm" /\ call.pc = "returned"
    /\ Len(call.listed) = 1 /\ call.listed[1] = DesiredListed
    /\ call.config.alarm # <<>>
    /\ LogOps(call.log) = <<"putAlarm">>

\* ------------------------------------------------------- the list syncLambda returns

\* the names of the functions of the service the platform holds
RemoteNames ==
    {SubSeq(f.FunctionName, 3, Len(f.FunctionName)) : f \in remote.functions}

\* C37: when the function step has completed, the list syncLambda returned has
\* exactly one entry for every function of the service the platform then holds,
\* and none for a function the step deleted as surplus.
C37_ReturnedFunctions ==
    (pc = "derive" /\ ~aborted) =>
        /\ {f.name : f \in Range(loc.fns)} = RemoteNames
        /\ Len(loc.fns) = Cardinality(RemoteNames)

\* the entries of the returned list are distinct and cover every function the
\* platform holds after the step
C37_ReturnedCoversRemote ==
    (pc = "derive" /\ ~aborted) =>
        /\ RemoteNames \subseteq {f.name : f \in Range(loc.fns)}
        /\ \A i, j \in DOMAIN loc.fns : loc.fns[i].name = loc.fns[j].name => i = j

\* a surplus function was deleted and is still in the returned list
C37_Witness ==
    /\ pc = "derive" /\ ~aborted
    /\ hist.calls["deleteLambda"] > 0
    /\ \E f \in Range(loc.fns) : f.name \notin RemoteNames

\* ------------------------------------------------------- the function cache of a deployment

\* a service whose name begins with the name of the deployed one and a dash
DashedService == <<Service, OtherService>>

\* the functions of the account in the order the platform lists them, each
\* with the service it was deployed for: two of the service, one of the
\* service with the dashed name, one of another service
AccountFunctions ==
    LET fn(service, name) ==
            [FunctionName |-> <<Prefix>> \o service \o name,
             FunctionArn |-> <<"arn", "aws", "lambda", "eu-central-1", Account, "function",
                               <<Prefix>> \o service \o name>>,
             service |-> service]
    IN  <<fn(<<Service>>, NameA), fn(DashedService, NameA),
          fn(<<OtherService>>, NameA), fn(<<Service>>, NameB)>>

\* the callers of a deployment: the prefetch of the resolver, started by getGlue
\* and not awaited; the snapshot of getCurrentState; the environment of a
\* referenced service, read once the prefetch has returned
Callers == {"prefetch", "getCurrentState", "getEnvironment"}

ServiceOf(c) == IF c = "getEnvironment" THEN DashedService ELSE <<Service>>

\* getFunctions over the list fetchFunctions returned: the functions whose name
\* starts with the prefix and the service, named by the rest
FunctionsOf(fetched, prefix, service) ==
    LET fnPrefix == <<prefix>> \o service
    IN MapSeq(SelectSeq(fetched, LAMBDA f : StartsWith(f.FunctionName, fnPrefix)),
              LAMBDA f : [id |-> f.FunctionArn,
                          name |-> SubSeq(f.FunctionName, Len(fnPrefix) + 1,
                                          Len(f.FunctionName))])

\* what a caller gets of the list returned to it
Got(c, fetched) ==
    IF c = "prefetch" THEN <<>> ELSE FunctionsOf(fetched, Prefix, ServiceOf(c))

\* the functions the deployment declares, and the safe-lists it may pass
CacheDeclared == <<[name |-> NameA]>>

InitCache ==
    /\ IdleCmp /\ IdleSync /\ IdleEnv /\ IdleRoute /\ monitor = IdleMonitor /\ IdleLoops
    /\ \E pages \in Paged(Len(AccountFunctions)), safeList \in {{}, {NameB}} :
          call = [fn |-> "deploy",
                  functions |-> Range(AccountFunctions),
                  pages |-> MapSeq(pages, LAMBDA page :
                                MapSeq(page, LAMBDA i : AccountFunctions[i])),
                  cachedFunctions |-> <<>>,
                  callers |-> [c \in Callers |->
                                 [pc |-> "idle", marker |-> <<>>, got |-> <<>>]],
                  throttled |-> 0,
                  safeList |-> safeList,
                  synced |-> FALSE, deleted |-> {}, returned |-> <<>>]
    /\ result = <<>>

cacheUnchanged == UNCHANGED <<cmpVars, syncVars, envVars, routeVars, monitor, loopVars>>

\* fetchFunctions is called: with an empty cache it starts to list, otherwise
\* it returns the cache as it is
CacheStart(c) ==
    /\ call.fn = "deploy" /\ call.callers[c].pc = "idle"
    /\ c = "getEnvironment" => call.callers["prefetch"].pc = "returned"
    /\ call' = IF call.cachedFunctions = <<>>
               THEN [call EXCEPT !.callers[c].pc = "request"]
               ELSE [call EXCEPT !.callers[c].pc = "returned",
                                 !.callers[c].got = Got(c, call.cachedFunctions)]
    /\ UNCHANGED result /\ cacheUnchanged

\* one turn of the loop of a caller: the page for its marker is answered, the
\* functions the cache does not hold yet are pushed, and the loop ends with
\* the last page; after a 429 the same page is asked for again; any other
\* failure is thrown
CachePage(c) ==
    /\ call.fn = "deploy" /\ call.callers[c].pc = "request"
    /\ \E status \in {200, 429, 500} :
        LET k == PageOf(call.callers[c].marker)
            last == k = Len(call.pages)
            pushed == call.cachedFunctions \o
                      SelectSeq(call.pages[k], LAMBDA f :
                          \A i \in DOMAIN call.cachedFunctions :
                              call.cachedFunctions[i].FunctionArn # f.FunctionArn)
        IN  /\ status = 429 => call.throttled < MaxThrottled
            /\ call' =
                 CASE status = 200 ->
                        [call EXCEPT
                            !.cachedFunctions = pushed,
                            !.callers[c].pc = IF last THEN "returned" ELSE @,
                            !.callers[c].got = IF last THEN Got(c, pushed) ELSE @,
                            !.callers[c].marker =
                                IF last THEN @ ELSE NextMarker(@, Tokens[k + 1])]
                   [] status = 429 -> [call EXCEPT !.throttled = @ + 1]
                   [] OTHER -> [call EXCEPT !.callers[c].pc = "thrown"]
    /\ UNCHANGED result /\ cacheUnchanged

\* syncLambda on the snapshot of getCurrentState: the declared functions the
\* snapshot lacks are created, the surplus ones outside the safe-list deleted,
\* and the snapshot followed by the created functions is returned
CacheSync ==
    /\ call.fn = "deploy" /\ call.callers["getCurrentState"].pc = "returned"
    /\ ~call.synced
    /\ LET currentFunctions == call.callers["getCurrentState"].got
           d == compare(CacheDeclared, currentFunctions)
           lambdaName(name) == <<Prefix, Service>> \o name
           created == MapSeq(d.missing, LAMBDA fn :
                        [FunctionName |-> lambdaName(fn.name),
                         FunctionArn |-> <<"arn", "aws", "lambda", "eu-central-1", Account,
                                           "function", lambdaName(fn.name)>>,
                         service |-> <<Service>>])
           doomed == {lambdaName(s.name) :
                        s \in {x \in Range(d.surplus) : x.name \notin call.safeList}}
           gone == {f \in call.functions : f.FunctionName \in doomed}
       IN  /\ call' = [call EXCEPT
                          !.functions = (@ \cup Range(created)) \ gone,
                          !.deleted = gone,
                          !.synced = TRUE,
                          !.returned =
                              MapSeq(currentFunctions,
                                     LAMBDA f : [id |-> f.id, name |-> f.name])
                              \o MapSeq(created, LAMBDA f :
                                     [id |-> f.FunctionArn,
                                      name |-> SubSeq(f.FunctionName, 3,
                                                      Len(f.FunctionName))])]
           /\ result' = <<call'.returned>>
    /\ cacheUnchanged

NextCache == (\E c \in Callers : CacheStart(c) \/ CachePage(c)) \/ CacheSync

SpecCache == InitCache /\ [][NextCache]_vars

\* C35: a getFunctions call that starts while another call is listing into the
\* cache returns every function of its service that the account holds, in
\* every interleaving, and the cache never holds a function twice.
C35_NoPartialList ==
    call.fn = "deploy" =>
        /\ \A c \in {"getCurrentState", "getEnvironment"} :
              call.callers[c].pc = "returned" =>
                 call.callers[c].got = FunctionsOf(AccountFunctions, Prefix, ServiceOf(c))
        /\ \A i, j \in DOMAIN call.cachedFunctions :
              call.cachedFunctions[i].FunctionArn = call.cachedFunctions[j].FunctionArn
                 => i = j

\* the cache never holds a function twice, and a caller that listed the pages
\* itself returns every function of its service
C35_ListingCallerComplete ==
    call.fn = "deploy" =>
        /\ \A i, j \in DOMAIN call.cachedFunctions :
              call.cachedFunctions[i].FunctionArn = call.cachedFunctions[j].FunctionArn
                 => i = j
        /\ \A c \in {"getCurrentState", "getEnvironment"} :
              (call.callers[c].pc = "returned" /\ call.callers[c].marker # <<>>) =>
                 call.callers[c].got = FunctionsOf(AccountFunctions, Prefix, ServiceOf(c))

\* the snapshot was taken from the cache while the prefetch was still listing
C35_Witness ==
    /\ call.fn = "deploy"
    /\ call.callers["prefetch"].pc = "request"
    /\ call.callers["getCurrentState"].pc = "returned"
    /\ Len(call.callers["getCurrentState"].got) < 2

\* C36: the functions getFunctions lists for the service, and the functions a
\* sync of the service deletes, were all deployed for that service; a function
\* of a service whose name begins with the name of the service and a dash is
\* neither listed nor deleted.
C36_OnlyOwnFunctions ==
    call.fn = "deploy" =>
        /\ call.callers["getCurrentState"].pc = "returned" =>
              \A g \in Range(call.callers["getCurrentState"].got) :
                 \A f \in Range(AccountFunctions) :
                    f.FunctionArn = g.id => f.service = <<Service>>
        /\ \A f \in call.deleted : f.service = <<Service>>

\* every function a sync of the service deletes has a name beginning with the
\* prefix and the service, and no function of a service with another first
\* segment is listed or deleted
C36_OtherServicesUntouched ==
    call.fn = "deploy" =>
        /\ \A f \in call.deleted : StartsWith(f.FunctionName, <<Prefix, Service>>)
        /\ \A g \in Range(call.callers["getCurrentState"].got) :
              \A f \in Range(AccountFunctions) :
                 f.FunctionArn = g.id => f.service # <<OtherService>>

\* the sync of the service has deleted the function of the dashed service
C36_Witness ==
    /\ call.fn = "deploy" /\ call.synced
    /\ \E f \in call.deleted : f.service = DashedService

\* ------------------------------------------------------- environment resolution across resyncs

MaxResyncs == 2

\* The resolved environment is deployed to the functions of the service, and
\* the same template is resolved again against it.
Resync ==
    /\ Resolved
    /\ call.fn = "none" \/ (call.fn = "resync" /\ call.round < MaxResyncs)
    /\ call' = [fn |-> "resync", previous |-> renv.env,
                round |-> IF call.fn = "none" THEN 1 ELSE call.round + 1]
    /\ deployed' = [deployed EXCEPT ![Service].functions = <<renv.env>>]
    /\ renv' = [pc |-> "scan", env |-> template, i |-> 1,
                referencedEnvironments |-> <<>>, referencedBaseUrls |-> <<>>,
                selfReferencing |-> <<>>, environments |-> <<>>, baseUrls |-> <<>>,
                error |-> <<>>, generated |-> {}]
    /\ UNCHANGED <<cmpVars, syncVars, routeVars, monitor, loopVars, result, template>>

NextResync == NextEnv \/ Resync

SpecResync == InitEnv /\ [][NextResync]_vars

\* the values that hold a generative token hold nothing else, and no value
\* copies a key of the service itself
LoneGenerative ==
    \A e \in Range(template) :
        /\ Generative(e.value) => Len(e.value) = 1
        /\ \A t \in Range(e.value) : t.kind = "SAME_AS" => t.a[1] # Service

\* C38: a template resolved against the environment its previous resolution
\* gave resolves to that same environment again, whatever its values hold.
C38_ResolutionFixpoint ==
    call.fn = "resync" =>
        /\ renv.pc # "failed"
        /\ Resolved => renv.env = call.previous

\* the fixpoint holds for the templates whose generative tokens stand alone and
\* that copy no key of the service itself
C38_LoneTokenFixpoint ==
    (call.fn = "resync" /\ LoneGenerative) =>
        /\ renv.pc # "failed"
        /\ Resolved => renv.env = call.previous

\* a value of text and a generative token was resolved a second time and grew
C38_Witness ==
    /\ call.fn = "resync" /\ Resolved
    /\ \E k \in DOMAIN template :
          /\ Generative(template[k].value) /\ Len(template[k].value) > 1
          /\ Len(renv.env[k].value) > Len(call.previous[k].value)

====
